---- MODULE Spec2Model ----
(***************************************************************************)
(* Model of the ingestion pipeline of geoguessr-analyzer:                  *)
(*   GameFileExtractor.run_extraction                                      *)
(*     = fetch_game_files_from_geoguessr_api  (paginated feed retrieval)   *)
(*     ; process_data                         (classification/normalizing) *)
(*     ; DatabaseManager.insert_games         (INSERT OR REPLACE + commit) *)
(*                                                                         *)
(* Python values are tagged records: the field py names the Python type,   *)
(* and each type keeps its content in a field of its own (d for the keys   *)
(* of a dict, l for the elements of a list).  A Python str that the code   *)
(* may hand to json.loads is modelled by what json.loads does with it:     *)
(* valid = FALSE raises JSONDecodeError, valid = TRUE yields val.          *)
(***************************************************************************)
EXTENDS Integers, Sequences, FiniteSets, TLC

VARIABLES
    feed,                  \* the upstream feed snapshot: the k-th request is answered by feed[k]
    runs_left,             \* run_extraction invocations still to be made
    pc,                    \* position of the running run_extraction
    requests,              \* params of every requests.get issued by the current retrieval
    all_entries,           \* fetch_game_files_from_geoguessr_api: accumulator
    pagination_token,      \* fetch_game_files_from_geoguessr_api: continuation token
    raw_data,              \* run_extraction: value returned by the retrieval
    entries,               \* process_data: data["entries"]
    i,                     \* process_data: index of the entry the outer loop is at
    payload,               \* process_data: the payload list the inner loop iterates
    j,                     \* process_data: index of the payload item the inner loop is at
    multiplayer_games,     \* process_data: output list
    singleplayer_games,    \* process_data: output list
    classified,            \* log of the payload items that reached the type dispatch
    pd_status,             \* outcome of process_data: "none", "running", "returned", "raised"
    pd_error,              \* the exception process_data raised and where it was raised
    processed_data,        \* run_extraction: value returned by process_data
    player_id,             \* insert_games: the player_id argument
    k,                     \* insert_games: index of the game the loop is at
    conn,                  \* insert_games: the table as seen inside the open transaction
    multiplayer_games_tbl, \* the committed rows of table multiplayer_games, in rowid order
    results,               \* return value of every finished run_extraction, oldest first
    tbl_runs,              \* committed table at the end of every finished run_extraction
    team_duel_games_tbl,           \* the committed rows of table team_duel_games
    team_duel_rounds_tbl,          \* the committed rows of table team_duel_rounds
    team_duel_rounds_enriched_tbl, \* the committed rows of table team_duel_rounds_enriched
    calls_left,            \* calls of the DatabaseManager still to be made by a caller
    caller,                \* who called the running DatabaseManager method
    duel_data,             \* insert_team_duel_game, insert_enriched_team_duel_game: game_data
    tx,                    \* the three team-duel tables as seen inside the open transaction
    rounds,                \* the rounds the running loop iterates
    round_idx,             \* index of the round the running loop is at
    geocoded,              \* the geocoder's answers to the running call, one triple per round
    calls,                 \* every finished DatabaseManager call and its outcome, oldest first
    before,                \* the committed tables when the running DatabaseManager call began
    game_meta_data,        \* extract_duel_games: the list get_game_ids returned
    meta_idx,              \* extract_duel_games: index of the game the loop is at
    store_read,            \* get_game_ids: how the SELECT ended: "none", "rows", "sqlite3.Error"
    fetched,               \* the game ids fetch_duel_game was called with, oldest first
    printed,               \* what extract_duel_games has printed with pprint
    logged,                \* the game modes extract_duel_games has logged as invalid
    duel_bodies,           \* the game_data of every process_team_duel_game call, oldest first
    main_outcome           \* data_pipeline.main: "none", "running", "exit", "raised"

vars == <<feed, runs_left, pc, requests, all_entries, pagination_token, raw_data,
          entries, i, payload, j, multiplayer_games, singleplayer_games, classified,
          pd_status, pd_error, processed_data, player_id, k, conn,
          multiplayer_games_tbl, results, tbl_runs, team_duel_games_tbl,
          team_duel_rounds_tbl, team_duel_rounds_enriched_tbl, calls_left, caller,
          duel_data, tx, rounds, round_idx, geocoded, calls, before,
          game_meta_data, meta_idx, store_read, fetched, printed, logged, duel_bodies,
          main_outcome>>

fetch_vars == <<requests, all_entries, pagination_token, raw_data>>
process_vars == <<entries, i, payload, j, multiplayer_games, singleplayer_games,
                  classified, pd_status, pd_error, processed_data>>
insert_vars == <<player_id, caller, k, conn, multiplayer_games_tbl>>
store_vars == <<team_duel_games_tbl, team_duel_rounds_tbl, team_duel_rounds_enriched_tbl>>
duel_vars == <<calls_left, duel_data, tx, rounds, round_idx, geocoded, before>>
extract_vars == <<game_meta_data, meta_idx, store_read, fetched, printed, logged,
                  duel_bodies, main_outcome>>

(***************************************************************************)
(* Bounds of the model.                                                    *)
(***************************************************************************)
MaxPages == 3     \* pages of a feed snapshot
MaxEntries == 2   \* entries of the batch of a one-page snapshot
MaxItems == 2     \* payload items of that batch, all entries together
MaxCalls == 2     \* calls a caller makes to the DatabaseManager
MaxGames == 2     \* games of the data of one insert_games call
MaxRounds == 2    \* rounds of a team-duel game

(***************************************************************************)
(* Python values.                                                          *)
(***************************************************************************)
None == [py |-> "None"]
PyStr(s) == [py |-> "str", s |-> s]
PyInt(n) == [py |-> "int", n |-> n]
PyDict(d) == [py |-> "dict", d |-> d]
PyList(l) == [py |-> "list", l |-> l]
JsonStr(v) == [py |-> "str", valid |-> TRUE, val |-> v]
BadJsonStr == [py |-> "str", valid |-> FALSE]

\* JSON null stored in a string-valued field
Null == "<null>"

isinstance(x, t) == x.py = t
Has(x, key) == key \in DOMAIN x.d

\* Python truthiness of a token value (None and "" are falsy)
Truthy(t) == ~isinstance(t, "None") /\ ~(isinstance(t, "str") /\ t.s = "")

(***************************************************************************)
(* The upstream feed API: one response per request.                        *)
(***************************************************************************)
\* requests.get(...).raise_for_status(); response.json(): the body, or an exception
ResponseFails(response) == response.status # "ok"

\* data.get("paginationToken"): None when the key is absent (or JSON null)
DataGetToken(data) ==
    IF "paginationToken" \in DOMAIN data THEN data.paginationToken ELSE None

(***************************************************************************)
(* fetch_game_files_from_geoguessr_api                                     *)
(***************************************************************************)
\* params of the next request: the token is sent only when it is truthy
RequestParams(token) ==
    IF Truthy(token) THEN [count |-> "100", paginationToken |-> token]
    ELSE [count |-> "100"]

\* variant of the code: the page's entries replace the accumulator
AccumulateEntries_Overwrite(acc, data) ==
    IF "entries" \in DOMAIN data THEN data.entries ELSE acc

\* if "entries" in data: all_entries.extend(data["entries"])
AccumulateEntries(acc, data) ==
    IF "entries" \in DOMAIN data THEN acc \o data.entries ELSE acc

\* variant of the code: the loop breaks on any falsy token
LoopBreaks_OnFalsy(token) == ~Truthy(token)

\* if pagination_token is None: break
LoopBreaks(token) == isinstance(token, "None")

\* variant of the code: the entries fetched so far are returned
FetchFailureResult_Partial(acc) == PyDict([entries |-> PyList(acc)])

\* except Exception: return None
FetchFailureResult(acc) == None

\* return {"entries": all_entries}
FetchResult(acc) == PyDict([entries |-> PyList(acc)])

(***************************************************************************)
(* process_multiplayer_game / process_singleplayer_game: the record, or    *)
(* the GameDataValidationError they raise.                                 *)
(***************************************************************************)
Raised(e) == [ok |-> FALSE, error |-> e]
Returned(v) == [ok |-> TRUE, value |-> v]

MissingFields(d, fields) == {f \in fields : f \notin DOMAIN d}

process_multiplayer_game(game_data) ==
    IF ~isinstance(game_data, "dict") THEN Raised("GameDataValidationError")
    ELSE IF MissingFields(game_data.d, {"time", "type", "payload"}) # {}
    THEN Raised("GameDataValidationError")
    ELSE IF ~isinstance(game_data.d.payload, "dict") THEN Raised("GameDataValidationError")
    ELSE IF MissingFields(game_data.d.payload.d,
                          {"gameId", "gameMode", "competitiveGameMode"}) # {}
    THEN Raised("GameDataValidationError")
    ELSE Returned([time |-> game_data.d.time,
                   game_id |-> game_data.d.payload.d.gameId,
                   game_mode |-> game_data.d.payload.d.gameMode,
                   competitive_game_mode |-> game_data.d.payload.d.competitiveGameMode])

process_singleplayer_game(game_data) ==
    IF ~isinstance(game_data, "dict") THEN Raised("GameDataValidationError")
    ELSE IF MissingFields(game_data.d, {"type", "time", "payload"}) # {}
    THEN Raised("GameDataValidationError")
    ELSE IF game_data.d.type # 1 THEN Raised("GameDataValidationError")
    ELSE IF ~isinstance(game_data.d.payload, "dict") THEN Raised("GameDataValidationError")
    ELSE IF MissingFields(game_data.d.payload.d,
                          {"mapSlug", "mapName", "points", "gameToken", "gameMode"}) # {}
    THEN Raised("GameDataValidationError")
    ELSE Returned([time |-> game_data.d.time,
                   game_token |-> game_data.d.payload.d.gameToken,
                   map_slug |-> game_data.d.payload.d.mapSlug,
                   map_name |-> game_data.d.payload.d.mapName,
                   points |-> game_data.d.payload.d.points,
                   game_mode |-> game_data.d.payload.d.gameMode])

(***************************************************************************)
(* process_data: the decoding and shape checks of one entry and one item.  *)
(***************************************************************************)
\* if isinstance(x, str): x = json.loads(x), or the JSONDecodeError
JsonDecoded(x) ==
    IF ~isinstance(x, "str") THEN Returned(x)
    ELSE IF x.valid THEN Returned(x.val)
    ELSE Raised("JSONDecodeError")

\* entry.get("payload", [])
EntryGetPayload(entry) == IF Has(entry, "payload") THEN entry.d.payload ELSE PyList(<<>>)

\* lines 157-162: the list the inner loop iterates, or skip = TRUE when the
\* entry is left by the continue statement
NormalizePayload(p) ==
    IF ~isinstance(p, "list")
    THEN [skip |-> TRUE, items |-> IF isinstance(p, "dict") THEN <<p>> ELSE <<>>]
    ELSE [skip |-> FALSE, items |-> p.l]

\* variant of the code: an entry without type is logged and skipped
EntryStep_SkipUntyped(entry0) ==
    LET e == JsonDecoded(entry0) IN
    IF ~e.ok THEN [do |-> "skip"]
    ELSE IF ~isinstance(e.value, "dict") THEN [do |-> "skip"]
    ELSE IF ~Has(e.value, "type") THEN [do |-> "skip"]
    ELSE LET p == JsonDecoded(EntryGetPayload(e.value)) IN
         IF ~p.ok THEN [do |-> "skip"]
         ELSE LET n == NormalizePayload(p.value) IN
              IF n.skip THEN [do |-> "skip"]
              ELSE [do |-> "iterate", items |-> n.items]

\* lines 131-162 for one entry: "skip" (continue), "raise" (KeyError, wrapped
\* into GameDataValidationError at line 181) or "iterate" with the payload list
EntryStep(entry0) ==
    LET e == JsonDecoded(entry0) IN
    IF ~e.ok THEN [do |-> "skip"]
    ELSE IF ~isinstance(e.value, "dict") THEN [do |-> "skip"]
    ELSE IF ~Has(e.value, "type") THEN [do |-> "raise"]
    ELSE LET p == JsonDecoded(EntryGetPayload(e.value)) IN
         IF ~p.ok THEN [do |-> "skip"]
         ELSE LET n == NormalizePayload(p.value) IN
              IF n.skip THEN [do |-> "skip"]
              ELSE [do |-> "iterate", items |-> n.items]

\* the type dispatch of lines 174-177
IsMultiplayerTag(t) == t \in {6, 7}
IsSingleplayerTag(t) == t \in {1, 2}

\* variant of the code: an unknown type tag is rejected
ItemStep_RejectUnknown(item0) ==
    LET d == JsonDecoded(item0) IN
    IF ~d.ok THEN [do |-> "skip"]
    ELSE IF ~isinstance(d.value, "dict") THEN [do |-> "raise"]
    ELSE IF ~Has(d.value, "type") THEN [do |-> "raise"]
    ELSE IF IsMultiplayerTag(d.value.d.type)
    THEN LET r == process_multiplayer_game(d.value) IN
         IF r.ok THEN [do |-> "multiplayer", rec |-> r.value] ELSE [do |-> "raise"]
    ELSE IF IsSingleplayerTag(d.value.d.type)
    THEN LET r == process_singleplayer_game(d.value) IN
         IF r.ok THEN [do |-> "singleplayer", rec |-> r.value] ELSE [do |-> "raise"]
    ELSE [do |-> "raise"]

\* lines 165-177 for one payload item: "skip", "raise", "multiplayer" or
\* "singleplayer" with the record, or "ignore" for an unknown type tag
ItemStep(item0) ==
    LET d == JsonDecoded(item0) IN
    IF ~d.ok THEN [do |-> "skip"]
    ELSE IF ~isinstance(d.value, "dict") THEN [do |-> "raise"]
    ELSE IF ~Has(d.value, "type") THEN [do |-> "raise"]
    ELSE IF IsMultiplayerTag(d.value.d.type)
    THEN LET r == process_multiplayer_game(d.value) IN
         IF r.ok THEN [do |-> "multiplayer", rec |-> r.value] ELSE [do |-> "raise"]
    ELSE IF IsSingleplayerTag(d.value.d.type)
    THEN LET r == process_singleplayer_game(d.value) IN
         IF r.ok THEN [do |-> "singleplayer", rec |-> r.value] ELSE [do |-> "raise"]
    ELSE [do |-> "ignore"]

(***************************************************************************)
(* DatabaseManager: table multiplayer_games.  A table is the sequence of   *)
(* its rows in rowid order.                                                *)
(***************************************************************************)
\* the row insert_games binds for one game
GameRow(player, game) ==
    [game_id |-> game.game_id, player_id |-> player, time |-> game.time,
     game_mode |-> game.game_mode, competitive_game_mode |-> game.competitive_game_mode]

\* the NOT NULL columns of CREATE TABLE multiplayer_games
ViolatesNotNull(row) ==
    \/ row.player_id = Null
    \/ row.time = Null
    \/ row.game_mode = Null
    \/ row.competitive_game_mode = Null

\* game_id TEXT PRIMARY KEY: the rows a new row conflicts with
\* (a NULL key is allowed by SQLite in a TEXT PRIMARY KEY and conflicts
\* with no row)
WithoutKey(tbl, game_id) ==
    SelectSeq(tbl, LAMBDA r : r.game_id # game_id \/ game_id = Null)

\* variant of the code: a plain insert into a table without the primary key
InsertOrReplace_NoKey(tbl, row) == Append(tbl, row)

\* variant of the code: the conflict is decided on (game_id, player_id)
ExecuteInsert_CompositeKey(tbl, row) ==
    IF ViolatesNotNull(row) THEN tbl
    ELSE Append(SelectSeq(tbl, LAMBDA r : r.game_id # row.game_id
                                          \/ r.player_id # row.player_id), row)

\* INSERT OR REPLACE: the conflicting row is deleted, the new row gets the
\* next rowid
InsertOrReplace(tbl, row) == Append(WithoutKey(tbl, row.game_id), row)

\* cursor.execute(INSERT OR REPLACE ...) inside try/except sqlite3.Error:
\* a failing row is logged and skipped
ExecuteInsert(tbl, row) ==
    IF ViolatesNotNull(row) THEN tbl ELSE InsertOrReplace(tbl, row)

\* self.player_id of the extractor
PlayerId == "p1"

\* no connection is open
NoTransaction == [open |-> FALSE]

(***************************************************************************)
(* run_extraction, one step at a time.                                     *)
(***************************************************************************)
\* run_extraction returns: the run is over
Finish(res, tbl) ==
    /\ results' = Append(results, res)
    /\ tbl_runs' = Append(tbl_runs, tbl)
    /\ pc' = "idle"

\* run_extraction is called
RunExtraction ==
    /\ pc = "idle"
    /\ runs_left > 0
    /\ runs_left' = runs_left - 1
    /\ pc' = "fetch"
    /\ requests' = <<>>
    /\ all_entries' = <<>>
    /\ pagination_token' = None
    /\ raw_data' = None
    /\ entries' = <<>>
    /\ i' = 0
    /\ payload' = <<>>
    /\ j' = 0
    /\ multiplayer_games' = <<>>
    /\ singleplayer_games' = <<>>
    /\ classified' = <<>>
    /\ pd_status' = "none"
    /\ pd_error' = None
    /\ processed_data' = None
    /\ k' = 0
    /\ conn' = multiplayer_games_tbl
    /\ UNCHANGED <<extract_vars, feed, player_id, caller, multiplayer_games_tbl, results, tbl_runs,
                   store_vars, duel_vars, calls>>

\* one iteration of the while loop of fetch_game_files_from_geoguessr_api
FetchPage ==
    /\ pc = "fetch"
    /\ Len(requests) < Len(feed)
    /\ LET response == feed[Len(requests) + 1] IN
       /\ requests' = Append(requests, RequestParams(pagination_token))
       /\ IF ResponseFails(response)
          THEN /\ raw_data' = FetchFailureResult(all_entries)
               /\ pc' = "process"
               /\ UNCHANGED <<all_entries, pagination_token>>
          ELSE LET acc == AccumulateEntries(all_entries, response.data)
                   token == DataGetToken(response.data) IN
               /\ all_entries' = acc
               /\ pagination_token' = token
               /\ IF LoopBreaks(token)
                  THEN raw_data' = FetchResult(acc) /\ pc' = "process"
                  ELSE UNCHANGED <<raw_data, pc>>
    /\ UNCHANGED <<extract_vars, feed, runs_left, process_vars, insert_vars, results, tbl_runs,
                   store_vars, duel_vars, calls>>

\* process_data, lines 110-128: the checks of the argument.  The TypeError
\* of line 120 is raised outside the try block and reaches run_extraction
\* as it is; run_extraction logs it and returns False.
ProcessDataEnter ==
    /\ pc = "process"
    /\ IF ~isinstance(raw_data, "dict")
       THEN /\ pd_status' = "raised"
            /\ pd_error' = [type |-> "TypeError", at |-> "argument"]
            /\ Finish(FALSE, multiplayer_games_tbl)
            /\ UNCHANGED <<entries, i>>
       ELSE /\ pd_status' = "running"
            /\ entries' = raw_data.d.entries.l
            /\ i' = 1
            /\ pc' = "entry"
            /\ UNCHANGED <<pd_error, results, tbl_runs>>
    /\ UNCHANGED <<extract_vars, feed, runs_left, fetch_vars, payload, j, multiplayer_games,
                   singleplayer_games, classified, processed_data, insert_vars,
                   store_vars, duel_vars, calls>>

\* process_data, lines 131-162: the outer loop takes the next entry
ProcessEntry ==
    /\ pc = "entry"
    /\ i <= Len(entries)
    /\ LET step == EntryStep(entries[i]) IN
       CASE step.do = "raise" ->
              /\ pd_status' = "raised"
              /\ pd_error' = [type |-> "GameDataValidationError", at |-> "entry"]
              /\ Finish(FALSE, multiplayer_games_tbl)
              /\ UNCHANGED <<i, payload, j>>
         [] step.do = "iterate" /\ step.items # <<>> ->
              /\ payload' = step.items
              /\ j' = 1
              /\ pc' = "item"
              /\ UNCHANGED <<i, pd_status, pd_error, results, tbl_runs>>
         [] OTHER ->
              /\ i' = i + 1
              /\ UNCHANGED <<payload, j, pc, pd_status, pd_error, results, tbl_runs>>
    /\ UNCHANGED <<extract_vars, feed, runs_left, fetch_vars, entries, multiplayer_games,
                   singleplayer_games, classified, processed_data, insert_vars,
                   store_vars, duel_vars, calls>>

\* process_data, lines 164-177: the inner loop takes the next payload item
ProcessPayloadEntry ==
    /\ pc = "item"
    /\ j <= Len(payload)
    /\ LET step == ItemStep(payload[j])
           advance == /\ IF j = Len(payload)
                         THEN i' = i + 1 /\ pc' = "entry"
                         ELSE UNCHANGED <<i, pc>>
                      /\ j' = j + 1
                      /\ UNCHANGED <<pd_status, pd_error, results, tbl_runs>> IN
       /\ classified' = IF step.do = "skip" THEN classified
                        ELSE Append(classified, <<i, j>>)
       /\ CASE step.do = "raise" ->
                 /\ pd_status' = "raised"
                 /\ pd_error' = [type |-> "GameDataValidationError", at |-> "item"]
                 /\ Finish(FALSE, multiplayer_games_tbl)
                 /\ UNCHANGED <<i, j, multiplayer_games, singleplayer_games>>
            [] step.do = "multiplayer" ->
                 /\ multiplayer_games' = Append(multiplayer_games, step.rec)
                 /\ UNCHANGED singleplayer_games
                 /\ advance
            [] step.do = "singleplayer" ->
                 /\ singleplayer_games' = Append(singleplayer_games, step.rec)
                 /\ UNCHANGED multiplayer_games
                 /\ advance
            [] OTHER ->
                 /\ UNCHANGED <<multiplayer_games, singleplayer_games>>
                 /\ advance
    /\ UNCHANGED <<extract_vars, feed, runs_left, fetch_vars, entries, payload, processed_data,
                   insert_vars, store_vars, duel_vars, calls>>

\* process_data returns (lines 183-186); run_extraction enters
\* insert_games(self.player_id, processed_data), which opens its connection
ProcessDataReturn ==
    /\ pc = "entry"
    /\ i > Len(entries)
    /\ pd_status' = "returned"
    /\ processed_data' = [multiplayer_games |-> multiplayer_games,
                          singleplayer_games |-> singleplayer_games]
    /\ player_id' = PlayerId
    /\ caller' = "run_extraction"
    /\ k' = 1
    /\ conn' = multiplayer_games_tbl
    /\ pc' = "insert"
    /\ UNCHANGED <<extract_vars, feed, runs_left, fetch_vars, entries, i, payload, j,
                   multiplayer_games, singleplayer_games, classified, pd_error,
                   multiplayer_games_tbl, results, tbl_runs, store_vars, duel_vars,
                   calls>>

\* insert_games, lines 142-164: one game of data["multiplayer_games"]
InsertGame ==
    /\ pc = "insert"
    /\ k <= Len(processed_data.multiplayer_games)
    /\ conn' = ExecuteInsert(conn, GameRow(player_id, processed_data.multiplayer_games[k]))
    /\ k' = k + 1
    /\ UNCHANGED <<extract_vars, feed, runs_left, pc, fetch_vars, process_vars, player_id, caller,
                   multiplayer_games_tbl, results, tbl_runs, store_vars, duel_vars,
                   calls>>

\* insert_games, lines 166-170: the single commit, return True; called by
\* run_extraction, the value is what run_extraction returns
CommitGames ==
    /\ pc = "insert"
    /\ k > Len(processed_data.multiplayer_games)
    /\ multiplayer_games_tbl' = conn
    /\ calls' = Append(calls, [op |-> "insert_games", result |-> "True"])
    /\ caller' = "none"
    /\ IF caller = "run_extraction"
       THEN Finish(TRUE, conn)
       ELSE pc' = "idle" /\ UNCHANGED <<results, tbl_runs>>
    /\ UNCHANGED <<extract_vars, feed, runs_left, fetch_vars, process_vars, player_id, k, conn,
                   store_vars, duel_vars>>

Next ==
    \/ RunExtraction
    \/ FetchPage
    \/ ProcessDataEnter
    \/ ProcessEntry
    \/ ProcessPayloadEntry
    \/ ProcessDataReturn
    \/ InsertGame
    \/ CommitGames

(***************************************************************************)
(* DatabaseManager called directly: insert_games(player_id, data).         *)
(***************************************************************************)
\* the committed tables of the database file
Committed ==
    [open |-> TRUE,
     multiplayer_games |-> multiplayer_games_tbl,
     team_duel_games |-> team_duel_games_tbl,
     team_duel_rounds |-> team_duel_rounds_tbl,
     team_duel_rounds_enriched |-> team_duel_rounds_enriched_tbl]

\* a record of data["multiplayer_games"], as process_multiplayer_game builds it
Game(game_id, time, mode) ==
    [game_id |-> game_id, time |-> time, game_mode |-> mode,
     competitive_game_mode |-> "None"]

Players == {"p1", "p2"}
GameRecords ==
    {Game("g1", "t1", "Duels"), Game("g1", "t2", "TeamDuels"), Game("g2", "t1", "Duels"),
     Game("g2", "t2", Null)}

\* insert_games, lines 125-140: the call opens its connection
CallInsertGames ==
    /\ pc = "idle"
    /\ calls_left > 0
    /\ calls_left' = calls_left - 1
    /\ \E p \in Players, n \in 0..MaxGames : \E games \in [1..n -> GameRecords] :
          /\ player_id' = p
          /\ processed_data' = [multiplayer_games |-> games, singleplayer_games |-> <<>>]
    /\ caller' = "none"
    /\ k' = 1
    /\ conn' = multiplayer_games_tbl
    /\ before' = Committed
    /\ pc' = "insert"
    /\ UNCHANGED <<extract_vars, feed, runs_left, fetch_vars, entries, i, payload, j, multiplayer_games,
                   singleplayer_games, classified, pd_status, pd_error,
                   multiplayer_games_tbl, results, tbl_runs, store_vars, duel_data, tx,
                   rounds, round_idx, geocoded, calls>>

NextGames ==
    \/ CallInsertGames
    \/ InsertGame
    \/ CommitGames

(***************************************************************************)
(* LocationEnricher.get_location_data.  A coordinate string is the         *)
(* sequence of the pieces that split(", ") cuts it into: "48.8, 2.3" is    *)
(* <<"48.8", "2.3">>, the empty string is <<"">>.                          *)
(***************************************************************************)
CoordStr(parts) == [py |-> "str", parts |-> parts]
EmptyStr == CoordStr(<<"">>)

\* the pieces float() accepts
FloatTexts == {"48.8", "2.3", "40.7", "-74.0"}

\* not lat_lng (line 23)
NotLatLng(lat_lng) == isinstance(lat_lng, "None") \/ lat_lng = EmptyStr

\* lat, lng = map(float, lat_lng.split(", ")) raises ValueError (line 27):
\* another number of pieces than two, or a piece that is no number
ParseFails(lat_lng) ==
    \/ Len(lat_lng.parts) # 2
    \/ \E x \in 1..Len(lat_lng.parts) : lat_lng.parts[x] \notin FloatTexts

\* the address Nominatim holds for a position (address levels may be absent)
AddressAt(lat_lng) ==
    IF lat_lng.parts[1] = "48.8"
    THEN [country |-> "France", state |-> "Ile-de-France", city |-> "Paris"]
    ELSE [country |-> "United States", state |-> "New York"]

\* what self.geolocator.reverse does with one call: it returns a location,
\* returns None, or raises an error of geopy.exc
GeocoderAnswers == {"location", "None", "GeocoderTimedOut", "GeocoderUnavailable"}

\* address.get(level) (lines 40-43)
AddressGet(address, level) == IF level \in DOMAIN address THEN address[level] ELSE Null

\* variant of the code: only the timeout of the geocoder is caught
Caught_OnlyTimedOut(error) == error = "GeocoderTimedOut"

\* except (ValueError, GeocoderTimedOut) (line 48)
Caught(error) == error \in {"ValueError", "GeocoderTimedOut"}

\* get_location_data(lat_lng), when the geocoder, if it is called, answers
\* with answer
get_location_data(lat_lng, answer) ==
    IF NotLatLng(lat_lng) THEN Returned(None)
    ELSE IF ParseFails(lat_lng)
    THEN (IF Caught("ValueError") THEN Returned(None) ELSE Raised("ValueError"))
    ELSE CASE answer = "location" ->
                Returned(PyDict([country |-> AddressGet(AddressAt(lat_lng), "country"),
                                 region |-> AddressGet(AddressAt(lat_lng), "region"),
                                 state |-> AddressGet(AddressAt(lat_lng), "state"),
                                 city |-> AddressGet(AddressAt(lat_lng), "city")]))
           [] answer = "None" -> Returned(None)
           [] OTHER -> IF Caught(answer) THEN Returned(None) ELSE Raised(answer)

\* the geocoder is called for lat_lng
CallsGeocoder(lat_lng) == ~NotLatLng(lat_lng) /\ ~ParseFails(lat_lng)

\* the answers that make a difference for lat_lng
AnswersFor(lat_lng) == IF CallsGeocoder(lat_lng) THEN GeocoderAnswers ELSE {"None"}

(***************************************************************************)
(* DatabaseManager: tables team_duel_games, team_duel_rounds and           *)
(* team_duel_rounds_enriched.  The surrogate id of a row is its place in   *)
(* the table; created_at, which the database fills in, is left out.        *)
(***************************************************************************)
\* the row insert_team_duel_game binds for the game (lines 274-279)
TeamDuelGameRow(game) ==
    [game_id |-> game.game_id, status |-> game.status, player1_id |-> game.player1,
     player2_id |-> game.player2]

\* the NOT NULL columns of CREATE TABLE team_duel_games
ViolatesNotNullGame(row) == row.status = Null \/ row.player1_id = Null

\* the row insert_team_duel_game binds for one round (lines 292-305)
RoundRow(game_id, round_data) ==
    [game_id |-> game_id,
     round_number |-> round_data.round_number,
     player1_guess |-> round_data.player1_guess,
     player2_guess |-> round_data.player2_guess,
     best_opponent_guess |-> round_data.best_opponent_guess,
     correct_location |-> round_data.correct_location,
     country_code |-> round_data.country_code,
     opponent_score |-> round_data.opponent_score,
     team_score |-> round_data.team_score,
     heading |-> round_data.heading,
     pitch |-> round_data.pitch,
     zoom |-> round_data.zoom]

\* the NOT NULL columns of CREATE TABLE team_duel_rounds, which are those of
\* CREATE TABLE team_duel_rounds_enriched
ViolatesNotNullRound(row) ==
    \/ row.game_id = Null
    \/ row.round_number = None
    \/ row.correct_location = None
    \/ row.country_code = Null
    \/ row.heading = None
    \/ row.pitch = None
    \/ row.zoom = None

\* variant of the code: a plain insert into a table without the unique key
InsertOrReplaceRound_NoKey(tbl, row) == Append(tbl, row)

\* UNIQUE(game_id, round_number) with INSERT OR REPLACE: the conflicting row
\* is deleted, the new row gets the next id
InsertOrReplaceRound(tbl, row) ==
    Append(SelectSeq(tbl, LAMBDA r : r.game_id # row.game_id
                                     \/ r.round_number # row.round_number), row)

\* loc.get(level) if loc else None (lines 369-382 and 472-485)
LocGet(loc, level) == IF isinstance(loc, "None") THEN Null ELSE loc.d[level]

\* the row bound for team_duel_rounds_enriched (lines 365-389 and 468-492)
EnrichedRow(game_id, round_data, player1_loc, player2_loc, correct_loc) ==
    [game_id |-> game_id,
     round_number |-> round_data.round_number,
     player1_guess |-> round_data.player1_guess,
     player1_guess_country |-> LocGet(player1_loc, "country"),
     player1_guess_region |-> LocGet(player1_loc, "region"),
     player1_guess_state |-> LocGet(player1_loc, "state"),
     player1_guess_city |-> LocGet(player1_loc, "city"),
     player2_guess |-> round_data.player2_guess,
     player2_guess_country |-> LocGet(player2_loc, "country"),
     player2_guess_region |-> LocGet(player2_loc, "region"),
     player2_guess_state |-> LocGet(player2_loc, "state"),
     player2_guess_city |-> LocGet(player2_loc, "city"),
     correct_location |-> round_data.correct_location,
     correct_location_country |-> LocGet(correct_loc, "country"),
     correct_location_region |-> LocGet(correct_loc, "region"),
     correct_location_state |-> LocGet(correct_loc, "state"),
     correct_location_city |-> LocGet(correct_loc, "city"),
     country_code |-> round_data.country_code,
     opponent_score |-> round_data.opponent_score,
     team_score |-> round_data.team_score,
     heading |-> round_data.heading,
     pitch |-> round_data.pitch,
     zoom |-> round_data.zoom]

\* the columns enrich_team_duel_rounds selects from team_duel_rounds
\* (lines 420-428)
SelectedColumns(row) ==
    [game_id |-> row.game_id,
     round_number |-> row.round_number,
     player1_guess |-> row.player1_guess,
     player2_guess |-> row.player2_guess,
     correct_location |-> row.correct_location,
     country_code |-> row.country_code,
     opponent_score |-> row.opponent_score,
     team_score |-> row.team_score,
     heading |-> row.heading,
     pitch |-> row.pitch,
     zoom |-> row.zoom]

\* one iteration of the loop over the rounds, in insert_enriched_team_duel_game
\* (lines 341-390) and in enrich_team_duel_rounds (lines 435-493): three
\* lookups, in this order, then the write
EnrichStep(game_id, round_data, answers) ==
    LET player1_loc == get_location_data(round_data.player1_guess, answers[1])
        player2_loc == get_location_data(round_data.player2_guess, answers[2])
        correct_loc == get_location_data(round_data.correct_location, answers[3])
    IN  IF ~player1_loc.ok \/ ~player2_loc.ok \/ ~correct_loc.ok
        THEN [do |-> "raise"]
        ELSE LET row == EnrichedRow(game_id, round_data, player1_loc.value,
                                    player2_loc.value, correct_loc.value)
             IN  IF ViolatesNotNullRound(row) THEN [do |-> "error"]
                 ELSE [do |-> "write", row |-> row]

\* the answers of the geocoder to the three lookups of one round
AnswersOfRound(round_data) ==
    {<<a1, a2, a3>> : a1 \in AnswersFor(round_data.player1_guess),
                      a2 \in AnswersFor(round_data.player2_guess),
                      a3 \in AnswersFor(round_data.correct_location)}

\* --- the arguments of the calls ---
\* a round summary, as process_team_duel_game builds it
RoundSummary(n, player1_guess, country_code) ==
    [round_number |-> PyInt(n),
     player1_guess |-> player1_guess,
     player2_guess |-> None,
     best_opponent_guess |-> CoordStr(<<"40.7", "-74.0">>),
     correct_location |-> CoordStr(<<"40.7", "-74.0">>),
     country_code |-> country_code,
     opponent_score |-> PyInt(4000),
     team_score |-> PyInt(4500),
     heading |-> PyInt(90),
     pitch |-> PyInt(0),
     zoom |-> PyInt(1)]

\* the summaries of round n: the tracked player guessed, did not guess, or
\* the panorama carries no country code
RoundSummaries(n) ==
    {RoundSummary(n, CoordStr(<<"48.8", "2.3">>), "US"),
     RoundSummary(n, None, "US"),
     RoundSummary(n, None, Null)}

\* the round lists of a game: rounds 1..n
RoundLists == UNION {[1..n -> UNION {RoundSummaries(m) : m \in 1..MaxRounds}] : n \in 0..MaxRounds}

TeamDuelGame(game_id, status, round_list) ==
    [game_id |-> game_id, status |-> status, player1 |-> "p1", player2 |-> "p2",
     rounds |-> round_list]

TeamDuelGames ==
    {TeamDuelGame("d1", status, round_list) :
        status \in {"Finished", Null},
        round_list \in {l \in RoundLists :
                          \A x \in 1..Len(l) : l[x].round_number = PyInt(x)}}

\* the variables the team-duel methods leave alone
pipeline_vars == <<feed, runs_left, fetch_vars, process_vars, insert_vars, results,
                   tbl_runs, extract_vars>>

\* a method called by the caller returns; the with block has rolled back
\* whatever was not committed
CallReturns(op, result) ==
    /\ calls' = Append(calls, [op |-> op, result |-> result])
    /\ tx' = NoTransaction
    /\ pc' = "idle"

\* insert_team_duel_game returns: to the caller, or into
\* insert_enriched_team_duel_game (line 338), which drops the value and
\* starts the loop over game_data["rounds"] on its own connection
TeamDuelReturns(result, committed) ==
    IF caller = "insert_enriched_team_duel_game"
    THEN /\ calls' = Append(calls, [op |-> "insert_team_duel_game", result |-> result])
         /\ tx' = committed
         /\ rounds' = duel_data.rounds
         /\ round_idx' = 1
         /\ pc' = "enriched_round"
    ELSE /\ CallReturns("insert_team_duel_game", result)
         /\ UNCHANGED <<rounds, round_idx>>

\* insert_team_duel_game(game_data) is called and opens its connection
CallInsertTeamDuelGame ==
    /\ pc = "idle"
    /\ calls_left > 0
    /\ calls_left' = calls_left - 1
    /\ duel_data' \in TeamDuelGames
    /\ tx' = Committed
    /\ before' = Committed
    /\ rounds' = <<>>
    /\ round_idx' = 0
    /\ geocoded' = <<>>
    /\ pc' = "team_duel_game"
    /\ UNCHANGED <<pipeline_vars, store_vars, calls>>

\* insert_enriched_team_duel_game(game_data, location_enricher) is called,
\* opens its connection and calls insert_team_duel_game(game_data)
\* (lines 333-338)
CallInsertEnrichedTeamDuelGame ==
    /\ pc = "idle"
    /\ calls_left > 0
    /\ calls_left' = calls_left - 1
    /\ duel_data' \in TeamDuelGames
    /\ caller' = "insert_enriched_team_duel_game"
    /\ tx' = Committed
    /\ before' = Committed
    /\ rounds' = <<>>
    /\ round_idx' = 0
    /\ geocoded' = <<>>
    /\ pc' = "team_duel_game"
    /\ UNCHANGED <<extract_vars, feed, runs_left, fetch_vars, process_vars, player_id, k, conn,
                   multiplayer_games_tbl, results, tbl_runs, store_vars, calls>>

\* insert_team_duel_game, lines 268-280: the row of the game.  An error of
\* the database leaves the with block, which rolls back, and the method
\* returns False.
InsertTeamDuelGameRow ==
    /\ pc = "team_duel_game"
    /\ LET row == TeamDuelGameRow(duel_data) IN
       IF ViolatesNotNullGame(row)
       THEN /\ TeamDuelReturns("False", Committed)
            /\ caller' = "none"
       ELSE /\ tx' = [tx EXCEPT !.team_duel_games = InsertOrReplace(@, row)]
            /\ rounds' = duel_data.rounds
            /\ round_idx' = 1
            /\ pc' = "team_duel_round"
            /\ UNCHANGED <<calls, caller>>
    /\ UNCHANGED <<extract_vars, feed, runs_left, fetch_vars, process_vars, player_id, k, conn,
                   multiplayer_games_tbl, results, tbl_runs, store_vars, calls_left,
                   duel_data, geocoded, before>>

\* insert_team_duel_game, lines 283-306: one round of game_data["rounds"]
InsertTeamDuelRound ==
    /\ pc = "team_duel_round"
    /\ round_idx <= Len(rounds)
    /\ LET row == RoundRow(duel_data.game_id, rounds[round_idx]) IN
       IF ViolatesNotNullRound(row)
       THEN /\ TeamDuelReturns("False", Committed)
            /\ caller' = "none"
       ELSE /\ tx' = [tx EXCEPT !.team_duel_rounds = InsertOrReplaceRound(@, row)]
            /\ round_idx' = round_idx + 1
            /\ UNCHANGED <<rounds, pc, calls, caller>>
    /\ UNCHANGED <<extract_vars, feed, runs_left, fetch_vars, process_vars, player_id, k, conn,
                   multiplayer_games_tbl, results, tbl_runs, store_vars, calls_left,
                   duel_data, geocoded, before>>

\* insert_team_duel_game, lines 308-312: the commit, return True
CommitTeamDuelGame ==
    /\ pc = "team_duel_round"
    /\ round_idx > Len(rounds)
    /\ team_duel_games_tbl' = tx.team_duel_games
    /\ team_duel_rounds_tbl' = tx.team_duel_rounds
    /\ TeamDuelReturns("True", tx)
    /\ caller' = "none"
    /\ UNCHANGED <<extract_vars, feed, runs_left, fetch_vars, process_vars, player_id, k, conn,
                   multiplayer_games_tbl, results, tbl_runs,
                   team_duel_rounds_enriched_tbl, calls_left, duel_data, geocoded,
                   before>>

\* insert_enriched_team_duel_game, lines 341-390: one round of
\* game_data["rounds"].  An exception that get_location_data lets through
\* leaves the method; an error of the database makes it return False; both
\* roll back the rows written on this connection.
InsertEnrichedRound ==
    /\ pc = "enriched_round"
    /\ round_idx <= Len(rounds)
    /\ \E answers \in AnswersOfRound(rounds[round_idx]) :
          LET step == EnrichStep(duel_data.game_id, rounds[round_idx], answers) IN
          /\ geocoded' = Append(geocoded, answers)
          /\ CASE step.do = "raise" ->
                    /\ CallReturns("insert_enriched_team_duel_game", "raised")
                    /\ UNCHANGED round_idx
               [] step.do = "error" ->
                    /\ CallReturns("insert_enriched_team_duel_game", "False")
                    /\ UNCHANGED round_idx
               [] OTHER ->
                    /\ tx' = [tx EXCEPT !.team_duel_rounds_enriched =
                                           InsertOrReplaceRound(@, step.row)]
                    /\ round_idx' = round_idx + 1
                    /\ UNCHANGED <<pc, calls>>
    /\ UNCHANGED <<pipeline_vars, store_vars, calls_left, duel_data, rounds, before>>

\* insert_enriched_team_duel_game, lines 392-397: the commit, return True
CommitEnrichedGame ==
    /\ pc = "enriched_round"
    /\ round_idx > Len(rounds)
    /\ team_duel_rounds_enriched_tbl' = tx.team_duel_rounds_enriched
    /\ CallReturns("insert_enriched_team_duel_game", "True")
    /\ UNCHANGED <<pipeline_vars, team_duel_games_tbl, team_duel_rounds_tbl, calls_left,
                   duel_data, rounds, round_idx, geocoded, before>>

\* variant of the code: what the transaction wrote stays in the table
RollBack_Commit(committed, transaction) == transaction

\* an exception leaves the with block of sqlite3.connect (line 416): the
\* open transaction is rolled back
RollBack(committed, transaction) == committed

\* enrich_team_duel_rounds(location_enricher) is called, opens its
\* connection and selects every row of team_duel_rounds (lines 415-432)
CallEnrichTeamDuelRounds ==
    /\ pc = "idle"
    /\ calls_left > 0
    /\ calls_left' = calls_left - 1
    /\ rounds' = [x \in 1..Len(team_duel_rounds_tbl) |->
                    SelectedColumns(team_duel_rounds_tbl[x])]
    /\ round_idx' = 1
    /\ tx' = Committed
    /\ before' = Committed
    /\ duel_data' = None
    /\ geocoded' = <<>>
    /\ pc' = "enrich_round"
    /\ UNCHANGED <<pipeline_vars, store_vars, calls>>

\* enrich_team_duel_rounds, lines 435-500: one round of the selected rows
EnrichRound ==
    /\ pc = "enrich_round"
    /\ round_idx <= Len(rounds)
    /\ \E answers \in AnswersOfRound(rounds[round_idx]) :
          LET step == EnrichStep(rounds[round_idx].game_id, rounds[round_idx], answers) IN
          /\ geocoded' = Append(geocoded, answers)
          /\ CASE step.do = "raise" ->
                    /\ CallReturns("enrich_team_duel_rounds", "raised")
                    /\ team_duel_rounds_enriched_tbl' =
                          RollBack(team_duel_rounds_enriched_tbl,
                                   tx.team_duel_rounds_enriched)
                    /\ UNCHANGED round_idx
               [] step.do = "error" ->
                    /\ CallReturns("enrich_team_duel_rounds", "False")
                    /\ team_duel_rounds_enriched_tbl' =
                          RollBack(team_duel_rounds_enriched_tbl,
                                   tx.team_duel_rounds_enriched)
                    /\ UNCHANGED round_idx
               [] OTHER ->
                    /\ tx' = [tx EXCEPT !.team_duel_rounds_enriched =
                                           InsertOrReplaceRound(@, step.row)]
                    /\ round_idx' = round_idx + 1
                    /\ UNCHANGED <<pc, calls, team_duel_rounds_enriched_tbl>>
    /\ UNCHANGED <<pipeline_vars, team_duel_games_tbl, team_duel_rounds_tbl, calls_left,
                   duel_data, rounds, before>>

\* enrich_team_duel_rounds, line 502 and lines 508-510: conn.commit() raises
\* sqlite3.OperationalError, as it does while another connection holds a
\* lock on the database; the method logs it and returns False
CommitEnrichedRoundsFails ==
    /\ pc = "enrich_round"
    /\ round_idx > Len(rounds)
    /\ rounds # <<>>
    /\ team_duel_rounds_enriched_tbl' =
          RollBack(team_duel_rounds_enriched_tbl, tx.team_duel_rounds_enriched)
    /\ CallReturns("enrich_team_duel_rounds", "False")
    /\ UNCHANGED <<pipeline_vars, team_duel_games_tbl, team_duel_rounds_tbl, calls_left,
                   duel_data, rounds, round_idx, geocoded, before>>

\* enrich_team_duel_rounds, lines 502-506: the commit, return True
CommitEnrichedRounds ==
    /\ pc = "enrich_round"
    /\ round_idx > Len(rounds)
    /\ team_duel_rounds_enriched_tbl' = tx.team_duel_rounds_enriched
    /\ CallReturns("enrich_team_duel_rounds", "True")
    /\ UNCHANGED <<pipeline_vars, team_duel_games_tbl, team_duel_rounds_tbl, calls_left,
                   duel_data, rounds, round_idx, geocoded, before>>

\* a caller of the DatabaseManager: any of its four writing methods
NextStore ==
    \/ CallInsertGames
    \/ InsertGame
    \/ CommitGames
    \/ CallInsertTeamDuelGame
    \/ CallInsertEnrichedTeamDuelGame
    \/ InsertTeamDuelGameRow
    \/ InsertTeamDuelRound
    \/ CommitTeamDuelGame
    \/ InsertEnrichedRound
    \/ CommitEnrichedGame
    \/ CallEnrichTeamDuelRounds
    \/ EnrichRound
    \/ CommitEnrichedRounds

\* enrich_locations.py: the enrichment pass alone
NextEnrich ==
    \/ CallEnrichTeamDuelRounds
    \/ EnrichRound
    \/ CommitEnrichedRounds
    \/ CommitEnrichedRoundsFails

(***************************************************************************)
(* GameDataExtractor and data_pipeline.main.  The body of a duel, as the   *)
(* game server returns it, is a dict of gameId, status, teams (each with   *)
(* players, who have guesses, and roundResults) and rounds (each with its  *)
(* panorama).  Coordinates are texts of floats; scores and the camera      *)
(* angles are ints or None.                                                *)
(***************************************************************************)
\* fetch_duel_game (lines 78-85): the body, or None after any exception
fetch_duel_game(response) == IF response.status # "ok" THEN None ELSE response.data

\* f"{point['lat']}, {point['lng']}"
FormatLatLng(point) == CoordStr(<<point.lat, point.lng>>)

\* [p["playerId"] for p in team["players"]] (line 151)
TeamPlayerIds(team) == [x \in 1..Len(team.players) |-> team.players[x].playerId]

\* the guesses of the first n players for a round, in the order in which the
\* loops of lines 168-174 visit them
RECURSIVE GuessesOf(_, _, _)
GuessesOf(players, n, round_num) ==
    IF n = 0 THEN <<>>
    ELSE GuessesOf(players, n - 1, round_num) \o
         SelectSeq([x \in 1..Len(players[n].guesses) |->
                       [playerId |-> players[n].playerId, guess |-> players[n].guesses[x]]],
                   LAMBDA g : g.guess.roundNumber = round_num)

\* variant of the code: the first guess visited stays
LastAssigned_First(guesses) ==
    IF guesses = <<>> THEN None ELSE FormatLatLng(guesses[1].guess)

\* player1_guess and player2_guess start as None (lines 166-167) and every
\* guess visited assigns the variable again (lines 172, 174)
LastAssigned(guesses) ==
    IF guesses = <<>> THEN None ELSE FormatLatLng(guesses[Len(guesses)].guess)

\* next((r for r in round_results if r["roundNumber"] == round_num), None)
RoundResult(round_results, round_num) ==
    LET matching == SelectSeq(round_results, LAMBDA r : r.roundNumber = round_num) IN
    IF matching = <<>> THEN None ELSE matching[1]

\* lines 162-220: the summary of one round.  Every guess of the round
\* assigns player1_guess or player2_guess, so the last one visited stays
SummarizeRound(round_data, player_team, opponent_team, player_id1) ==
    LET round_num == round_data.roundNumber
        guesses == GuessesOf(player_team.players, Len(player_team.players), round_num)
        own == SelectSeq(guesses, LAMBDA g : g.playerId = player_id1)
        other == SelectSeq(guesses, LAMBDA g : g.playerId # player_id1)
        opponent_round_result == RoundResult(opponent_team.roundResults, round_num)
        has_best_guess == /\ opponent_round_result # None
                          /\ opponent_round_result.bestGuess # None
        team_round_result == RoundResult(player_team.roundResults, round_num)
        panorama == round_data.panorama
    IN  [round_number |-> PyInt(round_num),
         player1_guess |-> LastAssigned(own),
         player2_guess |-> LastAssigned(other),
         best_opponent_guess |-> IF has_best_guess
                                 THEN FormatLatLng(opponent_round_result.bestGuess)
                                 ELSE None,
         correct_location |-> FormatLatLng(panorama),
         country_code |-> panorama.countryCode,
         opponent_score |-> IF has_best_guess THEN opponent_round_result.bestGuess.score
                            ELSE None,
         team_score |-> IF team_round_result = None THEN None ELSE team_round_result.score,
         heading |-> panorama.heading,
         pitch |-> panorama.pitch,
         zoom |-> panorama.zoom]

\* process_team_duel_game(data) (lines 133-234).  data["teams"] of None is a
\* TypeError and a missing key a KeyError; [..][0] without another team and
\* team_player_ids[1] of a team of one are IndexErrors; each is raised again
\* as GameDataValidationError (lines 230-234)
process_team_duel_game(data, player_id1) ==
    IF isinstance(data, "None") THEN Raised("GameDataValidationError")
    ELSE IF "teams" \notin DOMAIN data.d THEN Raised("GameDataValidationError")
    ELSE LET teams == data.d.teams
             found == {x \in 1..Len(teams) :
                         \E y \in 1..Len(teams[x].players) :
                            TeamPlayerIds(teams[x])[y] = player_id1}
         IN  IF found = {} THEN Returned(None)
             ELSE LET player_team == teams[CHOOSE x \in found : \A y \in found : x <= y]
                      others == SelectSeq(teams, LAMBDA t : t # player_team)
                      team_player_ids == TeamPlayerIds(player_team)
                  IN  IF \/ others = <<>>
                         \/ MissingFields(data.d, {"rounds", "gameId", "status"}) # {}
                         \/ Len(team_player_ids) < 2
                      THEN Raised("GameDataValidationError")
                      ELSE Returned(
                             [game_id |-> data.d.gameId,
                              status |-> data.d.status,
                              player1 |-> team_player_ids[1],
                              player2 |-> team_player_ids[2],
                              rounds |-> [x \in 1..Len(data.d.rounds) |->
                                            SummarizeRound(data.d.rounds[x], player_team,
                                                           others[1], player_id1)]])

\* get_game_ids (lines 217-243): the two selected columns of every row, or
\* the empty list when the SELECT raised sqlite3.Error
get_game_ids(tbl, read) ==
    IF read = "sqlite3.Error" THEN <<>>
    ELSE [x \in 1..Len(tbl) |-> [game_id |-> tbl[x].game_id, game_mode |-> tbl[x].game_mode]]

\* the ways the SELECT of get_game_ids can end
StoreReads == {"rows", "sqlite3.Error"}

\* variant of the code: a game of another mode is passed over like a Duels
\* game, without the error message
ExtractStep_SilentSkip(meta_data_dict, response, player_id1) ==
    LET fetched_data == fetch_duel_game(response) IN
    CASE meta_data_dict.game_mode = "TeamDuels" ->
           LET result == process_team_duel_game(fetched_data, player_id1) IN
           IF result.ok
           THEN [do |-> "break", game_data |-> fetched_data, processed_data |-> result.value]
           ELSE [do |-> "raise", game_data |-> fetched_data]
      [] OTHER -> [do |-> "pass"]

\* variant of the code: a TeamDuels game is passed over like a Duels game,
\* and the loop goes on
ExtractStep_NoBreak(meta_data_dict, response, player_id1) ==
    CASE meta_data_dict.game_mode \in {"Duels", "TeamDuels"} -> [do |-> "pass"]
      [] OTHER -> [do |-> "continue", message |-> meta_data_dict.game_mode]

\* one iteration of the loop of extract_duel_games (lines 267-282)
ExtractStep(meta_data_dict, response, player_id1) ==
    LET fetched_data == fetch_duel_game(response) IN
    CASE meta_data_dict.game_mode = "Duels" -> [do |-> "pass"]
      [] meta_data_dict.game_mode = "TeamDuels" ->
           LET result == process_team_duel_game(fetched_data, player_id1) IN
           IF result.ok
           THEN [do |-> "break", game_data |-> fetched_data, processed_data |-> result.value]
           ELSE [do |-> "raise", game_data |-> fetched_data]
      [] OTHER -> [do |-> "continue", message |-> meta_data_dict.game_mode]

\* --- what the game server answers ---
Guess(n, lat, lng) == [roundNumber |-> n, lat |-> lat, lng |-> lng]
Player(id, guessed, n) ==
    [playerId |-> id,
     guesses |-> IF guessed THEN [x \in 1..n |-> Guess(x, "48.8", "2.3")] ELSE <<>>]
\* a team member whose guesses differ from those of Player
Teammate(id, n) ==
    [playerId |-> id, guesses |-> [x \in 1..n |-> Guess(x, "2.3", "48.8")]]
BestGuess(has_best) ==
    IF has_best THEN [lat |-> "40.7", lng |-> "-74.0", score |-> PyInt(4000)] ELSE None
Team(players, n, has_best) ==
    [players |-> players,
     roundResults |-> [x \in 1..n |-> [roundNumber |-> x, score |-> PyInt(4500),
                                       bestGuess |-> BestGuess(has_best)]]]
Round(n) ==
    [roundNumber |-> n,
     panorama |-> [lat |-> "40.7", lng |-> "-74.0", countryCode |-> "US",
                   heading |-> PyInt(90), pitch |-> PyInt(0), zoom |-> PyInt(1)]]

\* the line-ups of the tracked player's team: listed first, listed second,
\* alone, with two team mates, absent
LineUps(guessed, n) ==
    {<<Player("p1", guessed, n), Player("p2", guessed, n)>>,
     <<Player("p2", guessed, n), Player("p1", guessed, n)>>,
     <<Player("p1", guessed, n)>>,
     <<Player("p1", guessed, n), Player("p2", guessed, n), Teammate("p7", n)>>,
     <<Teammate("p7", n), Player("p1", guessed, n), Player("p2", guessed, n)>>,
     <<Player("p5", guessed, n), Player("p6", guessed, n)>>}

DuelBody(game_id, teams, n) ==
    PyDict([gameId |-> game_id, status |-> "Finished", teams |-> teams,
            rounds |-> [x \in 1..n |-> Round(x)]])

\* the bodies of a duel of n rounds: the tracked player's team comes first
\* or second, the opponents have a best guess in every round or in none
DuelBodies(game_id, n) ==
    UNION {LET own == Team(line_up, n, TRUE)
               opponents == Team(<<Player("p3", TRUE, n), Player("p4", TRUE, n)>>,
                                 n, has_best)
           IN  {DuelBody(game_id, <<own, opponents>>, n),
                DuelBody(game_id, <<opponents, own>>, n)} :
              line_up \in UNION {LineUps(guessed, n) : guessed \in BOOLEAN},
              has_best \in BOOLEAN}

\* the answers to GET /duels/{game_id}: a failure, a body that is no duel
\* or a duel of up to MaxRounds rounds
DuelResponses(game_id) ==
    {[status |-> "error"], [status |-> "ok", data |-> PyDict([message |-> "NotFound"])]}
      \cup {[status |-> "ok", data |-> body] :
               body \in UNION {DuelBodies(game_id, n) : n \in 0..MaxRounds}}

\* main runs up to the call of extract_duel_games (lines 35-48), which reads
\* the stored games
CallExtractDuelGames ==
    /\ pc = "idle"
    /\ main_outcome = "none"
    /\ main_outcome' = "running"
    /\ \E read \in StoreReads :
          /\ store_read' = read
          /\ game_meta_data' = get_game_ids(multiplayer_games_tbl, read)
    /\ meta_idx' = 1
    /\ pc' = "extract"
    /\ UNCHANGED <<feed, runs_left, fetch_vars, process_vars, insert_vars, results,
                   tbl_runs, store_vars, duel_vars, calls, fetched, printed, logged,
                   duel_bodies>>

\* extract_duel_games, lines 267-282: one stored game.  After a TeamDuels
\* game the loop is left, the method returns and main calls exit() (line
\* 49); the validation error leaves the method and main raises it again
ExtractDuelGame ==
    /\ pc = "extract"
    /\ meta_idx <= Len(game_meta_data)
    /\ fetched' = Append(fetched, game_meta_data[meta_idx].game_id)
    /\ \E response \in DuelResponses(game_meta_data[meta_idx].game_id) :
          LET step == ExtractStep(game_meta_data[meta_idx], response, PlayerId) IN
          CASE step.do = "break" ->
                 /\ duel_bodies' = Append(duel_bodies, step.game_data)
                 /\ printed' = Append(printed, step.processed_data)
                 /\ main_outcome' = "exit"
                 /\ pc' = "idle"
                 /\ UNCHANGED <<meta_idx, logged>>
            [] step.do = "raise" ->
                 /\ duel_bodies' = Append(duel_bodies, step.game_data)
                 /\ main_outcome' = "raised"
                 /\ pc' = "idle"
                 /\ UNCHANGED <<meta_idx, printed, logged>>
            [] step.do = "continue" ->
                 /\ logged' = Append(logged, step.message)
                 /\ meta_idx' = meta_idx + 1
                 /\ UNCHANGED <<printed, duel_bodies, main_outcome, pc>>
            [] OTHER ->
                 /\ meta_idx' = meta_idx + 1
                 /\ UNCHANGED <<printed, logged, duel_bodies, main_outcome, pc>>
    /\ UNCHANGED <<feed, runs_left, fetch_vars, process_vars, insert_vars, results,
                   tbl_runs, store_vars, duel_vars, calls, game_meta_data, store_read>>

\* extract_duel_games, past the last stored game: the method returns and
\* main calls exit() (line 49)
ExtractDuelGamesReturn ==
    /\ pc = "extract"
    /\ meta_idx > Len(game_meta_data)
    /\ main_outcome' = "exit"
    /\ pc' = "idle"
    /\ UNCHANGED <<feed, runs_left, fetch_vars, process_vars, insert_vars, results,
                   tbl_runs, store_vars, duel_vars, calls, game_meta_data, meta_idx,
                   store_read, fetched, printed, logged, duel_bodies>>

\* data_pipeline.py: main
NextMain ==
    \/ CallExtractDuelGames
    \/ ExtractDuelGame
    \/ ExtractDuelGamesReturn

(***************************************************************************)
(* Feed snapshots the model is run on.                                     *)
(***************************************************************************)
MultiplayerItem(tag, time, game_id, mode) ==
    PyDict([type |-> tag, time |-> time,
            payload |-> PyDict([gameId |-> game_id, gameMode |-> mode,
                                competitiveGameMode |-> "None"])])

SingleplayerItem(tag) ==
    PyDict([type |-> tag, time |-> "t4",
            payload |-> PyDict([mapSlug |-> "world", mapName |-> "World", points |-> 5,
                                gameToken |-> "s1", gameMode |-> "Standard"])])

ItemDuel == MultiplayerItem(6, "t1", "g1", "Duels")
ItemTeamDuel == MultiplayerItem(7, "t2", "g2", "TeamDuels")
ItemReplay == MultiplayerItem(6, "t3", "g1", "TeamDuels")
ItemNullMode == MultiplayerItem(6, "t1", "g3", Null)
ItemNoGameId ==
    PyDict([type |-> 6, time |-> "t1",
            payload |-> PyDict([gameMode |-> "Duels", competitiveGameMode |-> "None"])])
ItemNoTime ==
    PyDict([type |-> 7,
            payload |-> PyDict([gameId |-> "g2", gameMode |-> "Duels",
                                competitiveGameMode |-> "None"])])
ItemSingle1 == SingleplayerItem(1)
ItemSingle2 == SingleplayerItem(2)
ItemOther == PyDict([type |-> 9, time |-> "t5", payload |-> PyDict([badge |-> "b"])])
ItemNoType == PyDict([time |-> "t5", payload |-> PyDict([badge |-> "b"])])

\* a feed entry with a payload
Entry(p) == PyDict([type |-> 7, payload |-> p])

SeqsUpTo(S, n) == UNION {[1..m -> S] : m \in 0..n}

\* --- one-page snapshots with a varied batch (normalization) ---
\* the items of the payload lists
NormItems ==
    <<ItemDuel, ItemTeamDuel, ItemNoGameId, ItemSingle1, ItemSingle2, ItemOther>>

\* entries whose payload holds no item
ShapeEntries ==
    <<PyDict([type |-> 7]),          \* no payload key
      BadJsonStr,                    \* an entry that is no JSON
      PyInt(0),                      \* an entry that is no object
      Entry(BadJsonStr),             \* a payload that is no JSON
      Entry(PyInt(0))>>              \* a payload that is neither object nor list

\* further entries whose payload holds one item: a payload that is a single
\* object, JSON-encoded entries, payloads and items, items that lack a
\* field, an entry without type
SingleEntries ==
    <<Entry(ItemDuel), Entry(ItemNoGameId), Entry(ItemSingle1), Entry(ItemOther),
      Entry(JsonStr(PyList(<<ItemDuel>>))),
      Entry(PyList(<<JsonStr(ItemTeamDuel)>>)),
      Entry(PyList(<<BadJsonStr>>)),
      Entry(PyList(<<ItemNoTime>>)),
      Entry(PyList(<<ItemNoType>>)),
      JsonStr(Entry(PyList(<<ItemDuel>>))),
      PyDict([payload |-> PyList(<<ItemDuel>>)])>>

RECURSIVE Power(_, _)
Power(b, e) == IF e = 0 THEN 1 ELSE b * Power(b, e - 1)

\* the number of entries whose payload holds w items
EntryCount(w) ==
    IF w = 0 THEN Len(ShapeEntries)
    ELSE Power(Len(NormItems), w) + (IF w = 1 THEN Len(SingleEntries) ELSE 0)

\* the c-th of them, counting from 0
EntryAt(w, c) ==
    IF w = 0 THEN ShapeEntries[c + 1]
    ELSE IF c < Power(Len(NormItems), w)
    THEN Entry(PyList([x \in 1..w |->
                 NormItems[((c \div Power(Len(NormItems), x - 1)) % Len(NormItems)) + 1]]))
    ELSE SingleEntries[c - Power(Len(NormItems), w) + 1]

\* the item counts of the n entries of a batch
Weights(n) == [1..n -> 0..MaxItems]

RECURSIVE SumTo(_, _)
SumTo(wv, n) == IF n = 0 THEN 0 ELSE wv[n] + SumTo(wv, n - 1)

RECURSIVE BatchCount(_, _)
\* the number of batches whose first n entries have the item counts wv
BatchCount(wv, n) == IF n = 0 THEN 1 ELSE EntryCount(wv[n]) * BatchCount(wv, n - 1)

\* the c-th of them, counting from 0
BatchAt(wv, c) ==
    [x \in 1..Len(wv) |->
        EntryAt(wv[x], (c \div BatchCount(wv, x - 1)) % EntryCount(wv[x]))]

OkPage(data) == [status |-> "ok", data |-> data]
ErrorPages == {[status |-> "http_error"], [status |-> "transport_error"]}

\* --- snapshots of several pages (pagination) ---
PageEntryA == Entry(PyList(<<ItemDuel>>))
PageEntryB == Entry(PyList(<<ItemSingle1>>))
Tokens == {PyStr(""), PyStr("tA"), PyStr("tB")}
PageBodies == {[entries |-> <<PageEntryA>>], [entries |-> <<PageEntryB>>]}

\* pages that end a retrieval: no token, or a failing request
LastPages ==
    {OkPage(b) : b \in PageBodies \cup {[paginationToken |-> None]}} \cup ErrorPages
\* pages that carry a token
TokenPages ==
    {OkPage([entries |-> b.entries, paginationToken |-> t]) : b \in PageBodies, t \in Tokens}
    \cup {OkPage([paginationToken |-> t]) : t \in Tokens}

\* a snapshot is a chain of pages that ends: its last page is one of Last
Chains(Pages, Last) ==
    {f \in SeqsUpTo(Pages \cup Last, MaxPages) : f # <<>> /\ f[Len(f)] \in Last}

FetchFeeds == Chains(TokenPages \cup LastPages, LastPages)

\* --- snapshots for repeated ingestion ---
IngestEntries ==
    {Entry(PyList(<<x>>)) : x \in {ItemDuel, ItemReplay, ItemTeamDuel, ItemNullMode,
                                   ItemNoGameId, ItemSingle1}}
IngestBodies == {[entries |-> <<e>>] : e \in IngestEntries}
IngestFeeds ==
    Chains({OkPage([entries |-> b.entries, paginationToken |-> PyStr("tA")])
              : b \in IngestBodies},
           {OkPage(b) : b \in IngestBodies} \cup {[status |-> "http_error"]})

\* a table that an earlier run, for another player, has written
ExistingTable ==
    <<[game_id |-> "g1", player_id |-> "p0", time |-> "t0", game_mode |-> "Duels",
       competitive_game_mode |-> "None"]>>

(***************************************************************************)
(* Specifications.                                                         *)
(***************************************************************************)
\* no call is running
InitIdle ==
    /\ pc = "idle"
    /\ requests = <<>>
    /\ all_entries = <<>>
    /\ pagination_token = None
    /\ raw_data = None
    /\ entries = <<>>
    /\ i = 0
    /\ payload = <<>>
    /\ j = 0
    /\ multiplayer_games = <<>>
    /\ singleplayer_games = <<>>
    /\ classified = <<>>
    /\ pd_status = "none"
    /\ pd_error = None
    /\ processed_data = None
    /\ player_id = PlayerId
    /\ caller = "none"
    /\ k = 0
    /\ conn = multiplayer_games_tbl
    /\ results = <<>>
    /\ tbl_runs = <<>>
    /\ duel_data = None
    /\ tx = NoTransaction
    /\ rounds = <<>>
    /\ round_idx = 0
    /\ geocoded = <<>>
    /\ calls = <<>>
    /\ before = NoTransaction
    /\ game_meta_data = <<>>
    /\ meta_idx = 0
    /\ store_read = "none"
    /\ fetched = <<>>
    /\ printed = <<>>
    /\ logged = <<>>
    /\ duel_bodies = <<>>
    /\ main_outcome = "none"

\* an extractor that makes runs calls of run_extraction on the snapshot
InitWith(snapshot, runs, tables) ==
    /\ feed = snapshot
    /\ runs_left = runs
    /\ calls_left = 0
    /\ multiplayer_games_tbl \in tables
    /\ team_duel_games_tbl = <<>>
    /\ team_duel_rounds_tbl = <<>>
    /\ team_duel_rounds_enriched_tbl = <<>>
    /\ InitIdle

\* one ingestion of a one-page snapshot into an empty store
Init ==
    \E n \in 0..MaxEntries : \E wv \in Weights(n) :
        /\ SumTo(wv, n) <= MaxItems
        /\ \E c \in 0..(BatchCount(wv, n) - 1) :
              InitWith(<<OkPage([entries |-> BatchAt(wv, c)])>>, 1, {<<>>})
Spec == Init /\ [][Next]_vars

\* one ingestion of a snapshot of several pages into an empty store
InitFetch == \E f \in FetchFeeds : InitWith(f, 1, {<<>>})
SpecFetch == InitFetch /\ [][Next]_vars
\* run_extraction is sequential code: a step that can be taken is taken
FairSpecFetch == SpecFetch /\ WF_vars(Next)

\* two ingestions of the same snapshot
InitIngest == \E f \in IngestFeeds : InitWith(f, 2, {<<>>, ExistingTable})
SpecIngest == InitIngest /\ [][Next]_vars

\* a caller makes up to MaxCalls calls of insert_games on an empty store
InitGames ==
    /\ feed = <<>>
    /\ runs_left = 0
    /\ calls_left = MaxCalls
    /\ multiplayer_games_tbl = <<>>
    /\ team_duel_games_tbl = <<>>
    /\ team_duel_rounds_tbl = <<>>
    /\ team_duel_rounds_enriched_tbl = <<>>
    /\ InitIdle
SpecGames == InitGames /\ [][NextGames]_vars

\* a caller makes up to MaxCalls calls of the writing methods on an empty store
SpecStore == InitGames /\ [][NextStore]_vars

\* --- stores for the enrichment pass ---
\* a row of team_duel_rounds, as insert_team_duel_game has written it
RawRound(n, player1_guess, player2_guess) ==
    RoundRow("d1", [RoundSummary(n, player1_guess, "US") EXCEPT
                       !.player2_guess = player2_guess])

\* the second guess of a stored round: a position, NULL, the empty string,
\* and strings that are no position
Player2Guesses ==
    {CoordStr(<<"48.8", "2.3">>), None, EmptyStr, CoordStr(<<"abc">>),
     CoordStr(<<"48.8", "x">>)}

\* the tables of up to MaxRounds rounds of one game, rounds 1..n
RawTables(P1, P2) ==
    UNION {{t \in [1..n -> UNION {{RawRound(m, g1, g2) : g1 \in P1, g2 \in P2}
                                     : m \in 1..MaxRounds}]
              : \A x \in 1..n : t[x].round_number = PyInt(x)}
           : n \in 0..MaxRounds}

\* enriched rows of an earlier pass: of round 1 of the game, when the raw
\* row had other values, and of a game the raw table does not hold
StaleEnrichedRow(game_id) ==
    EnrichedRow(game_id, [RoundSummary(1, None, "FR") EXCEPT !.team_score = PyInt(0)],
                None, None,
                PyDict([country |-> "France", region |-> Null, state |-> Null,
                        city |-> "Paris"]))
StaleTables == {<<>>, <<StaleEnrichedRow("d1")>>, <<StaleEnrichedRow("d0")>>}

\* enrich_locations.py makes passes passes over a store
InitEnrichWith(raw_tables, enriched_tables, passes) ==
    /\ feed = <<>>
    /\ runs_left = 0
    /\ calls_left = passes
    /\ multiplayer_games_tbl = <<>>
    /\ team_duel_games_tbl = <<>>
    /\ team_duel_rounds_tbl \in raw_tables
    /\ team_duel_rounds_enriched_tbl \in enriched_tables
    /\ InitIdle

\* one pass over rounds whose second guess is of every kind
InitEnrich ==
    InitEnrichWith(RawTables({CoordStr(<<"48.8", "2.3">>)}, Player2Guesses), {<<>>}, 1)
SpecEnrich == InitEnrich /\ [][NextEnrich]_vars

\* up to MaxCalls passes over a store that earlier passes have filled
InitReenrich ==
    InitEnrichWith(RawTables({None}, {None, EmptyStr}), StaleTables, MaxCalls)
SpecReenrich == InitReenrich /\ [][NextEnrich]_vars

\* the stored games are of a mode extract_duel_games handles or of another
StoredModes == {"Duels", "TeamDuels", "BattleRoyaleDistance"}
StoredGameIds == <<"g1", "g2", "g3", "g4">>

\* the multiplayer_games tables of up to MaxGames games
StoredTables ==
    UNION {{[x \in 1..n |-> GameRow(PlayerId, [game_id |-> StoredGameIds[x], time |-> "t1",
                                               game_mode |-> modes[x],
                                               competitive_game_mode |-> "None"])] :
              modes \in [1..n -> StoredModes]} : n \in 0..MaxGames}

\* main is run once on a store that holds the games of earlier ingestions
InitMain ==
    /\ feed = <<>>
    /\ runs_left = 0
    /\ calls_left = 0
    /\ multiplayer_games_tbl \in StoredTables
    /\ team_duel_games_tbl = <<>>
    /\ team_duel_rounds_tbl = <<>>
    /\ team_duel_rounds_enriched_tbl = <<>>
    /\ InitIdle
SpecMain == InitMain /\ [][NextMain]_vars

(***************************************************************************)
(* Vocabulary of the properties.                                           *)
(***************************************************************************)
Last(q) == q[Len(q)]

\* the run_extraction under way has left the retrieval behind, or is over
Retrieved == pc \in {"process", "entry", "item", "insert"} \/ (pc = "idle" /\ results # <<>>)

\* the entries a page carries
PageEntries(page) ==
    IF ~ResponseFails(page) /\ "entries" \in DOMAIN page.data THEN page.data.entries
    ELSE <<>>

\* a page without a continuation token
Tokenless(page) == ~ResponseFails(page) /\ isinstance(DataGetToken(page.data), "None")

RECURSIVE Concatenation(_, _)
\* the entries of the first n pages of f, in page order
Concatenation(f, n) ==
    IF n = 0 THEN <<>> ELSE Concatenation(f, n - 1) \o PageEntries(f[n])

\* a request of the retrieval under way has failed
FetchFailed == \E n \in 1..Len(requests) : ResponseFails(feed[n])

\* every page answers, and every page but the last returns a token
TokenChain(f) ==
    \A n \in 1..Len(f) : ~ResponseFails(f[n]) /\ (Tokenless(f[n]) <=> n = Len(f))

(***************************************************************************)
(* C1: when every page of the snapshot but the last returns a pagination   *)
(* token, the retrieval issues exactly one request per page and returns    *)
(* the concatenation of the pages' entries in page order.                  *)
(***************************************************************************)
C1_PaginationConcatenation ==
    (TokenChain(feed) /\ Retrieved) =>
        /\ Len(requests) = Len(feed)
        /\ raw_data = PyDict([entries |-> PyList(Concatenation(feed, Len(feed)))])

\* a retrieval of MaxPages pages with different entries on the first two has returned
C1_Witness ==
    /\ TokenChain(feed)
    /\ Retrieved
    /\ Len(feed) = MaxPages
    /\ PageEntries(feed[1]) # <<>>
    /\ PageEntries(feed[2]) # <<>>
    /\ PageEntries(feed[1]) # PageEntries(feed[2])

(***************************************************************************)
(* C2: when a page request fails, the retrieval returns None (none of the  *)
(* entries fetched before), and run_extraction writes nothing to the table *)
(* and returns False.                                                      *)
(***************************************************************************)
C2_FetchFailureIsTotal ==
    /\ [](FetchFailed =>
            /\ pc \in {"process", "idle"}
            /\ raw_data = None
            /\ pc = "idle" => (results # <<>> /\ Last(results) = FALSE))
    /\ [][FetchFailed' => multiplayer_games_tbl' = multiplayer_games_tbl]_vars

\* a run whose second or later request failed, after entries were fetched, is over
C2_Witness ==
    /\ FetchFailed
    /\ pc = "idle"
    /\ Len(requests) > 1
    /\ all_entries # <<>>
    /\ \E n \in 1..Len(all_entries) : EntryStep(all_entries[n]).do = "iterate"

(***************************************************************************)
(* C3: the retrieval loop ends, and it ends exactly at the first response  *)
(* that carries no continuation token: it does not go on after such a      *)
(* response, and a retrieval that returns entries has just received one.   *)
(***************************************************************************)
C3_StopsAtFirstTokenless ==
    /\ [](\A n \in 1..Len(requests) :
            Tokenless(feed[n]) => (n = Len(requests) /\ pc # "fetch"))
    /\ []((Retrieved /\ ~FetchFailed) => Tokenless(feed[Len(requests)]))
    /\ ((pc = "fetch") ~> (pc # "fetch"))

\* a retrieval has stopped at a tokenless page that is not the last page of
\* the snapshot, after a page with an empty-string token
C3_Witness ==
    /\ pc = "process"
    /\ ~FetchFailed
    /\ Len(requests) > 1
    /\ Len(requests) < Len(feed)
    /\ \E n \in 1..Len(requests) :
          ~ResponseFails(feed[n]) /\ DataGetToken(feed[n].data) = PyStr("")

(***************************************************************************)
(* Vocabulary of the properties of process_data.                           *)
(***************************************************************************)
\* the run_extraction under way is over
RunOver == pc = "idle" /\ results # <<>>

\* x after the transparent JSON decoding; an undecodable string stays as it is
Structured(x) == IF JsonDecoded(x).ok THEN JsonDecoded(x).value ELSE x

\* the payload items of a feed entry, as section 4.2 of the specification
\* has them: the elements of a payload list, or the single payload object
ItemsOfEntry(entry0) ==
    LET e == Structured(entry0) IN
    IF ~isinstance(e, "dict") \/ ~Has(e, "payload") THEN <<>>
    ELSE LET p == Structured(e.d.payload) IN
         IF isinstance(p, "list") THEN [x \in 1..Len(p.l) |-> Structured(p.l[x])]
         ELSE IF isinstance(p, "dict") THEN <<p>>
         ELSE <<>>

\* an entry whose payload is a single object
SingleObjectPayload(entry0) ==
    LET e == Structured(entry0) IN
    /\ isinstance(e, "dict")
    /\ Has(e, "type")
    /\ Has(e, "payload")
    /\ isinstance(Structured(e.d.payload), "dict")

\* a structured entry without the top-level type field
StructuredWithoutType(entry0) ==
    isinstance(Structured(entry0), "dict") /\ ~Has(Structured(entry0), "type")

TagOf(item) == IF isinstance(item, "dict") /\ Has(item, "type") THEN item.d.type ELSE 0

HasFields(item, fields, payload_fields) ==
    /\ isinstance(item, "dict")
    /\ fields \subseteq DOMAIN item.d
    /\ isinstance(item.d.payload, "dict")
    /\ payload_fields \subseteq DOMAIN item.d.payload.d

\* a payload item with a multiplayer tag and all the fields the transform requires
CompleteMultiplayer(item) ==
    /\ TagOf(item) \in {6, 7}
    /\ HasFields(item, {"time", "type", "payload"},
                 {"gameId", "gameMode", "competitiveGameMode"})

\* a payload item with a multiplayer tag that lacks a required field
IncompleteMultiplayer(item) == TagOf(item) \in {6, 7} /\ ~CompleteMultiplayer(item)

\* a payload item with a single-player tag and all the fields the transform requires
CompleteSingleplayer(item) ==
    /\ TagOf(item) \in {1, 2}
    /\ HasFields(item, {"time", "type", "payload"},
                 {"mapSlug", "mapName", "points", "gameToken", "gameMode"})

\* a payload item with a type tag other than 1, 2, 6 and 7
UnknownTag(item) ==
    isinstance(item, "dict") /\ Has(item, "type") /\ item.d.type \notin {1, 2, 6, 7}

\* the multiplayer record of a complete multiplayer item
MultiplayerRecord(item) ==
    [time |-> item.d.time,
     game_id |-> item.d.payload.d.gameId,
     game_mode |-> item.d.payload.d.gameMode,
     competitive_game_mode |-> item.d.payload.d.competitiveGameMode]

RECURSIVE FlatItems(_, _)
\* the payload items of the first n entries of a batch, in order
FlatItems(batch, n) ==
    IF n = 0 THEN <<>> ELSE FlatItems(batch, n - 1) \o ItemsOfEntry(batch[n])

\* the multiplayer records of the complete multiplayer items of a batch
ExpectedMultiplayer(batch) ==
    LET items == SelectSeq(FlatItems(batch, Len(batch)), CompleteMultiplayer) IN
    [x \in 1..Len(items) |-> MultiplayerRecord(items[x])]

(***************************************************************************)
(* C4: every payload item with type tag 6 or 7 and all required fields     *)
(* yields exactly one multiplayer record, with gameId, gameMode and        *)
(* competitiveGameMode mapped to game_id, game_mode and                    *)
(* competitive_game_mode, and no single-player record: a batch that        *)
(* process_data returns holds the records of its complete multiplayer      *)
(* items, one each, in order.                                              *)
(***************************************************************************)
C4_MultiplayerItemYieldsOneRecord ==
    pd_status = "returned" =>
        /\ multiplayer_games = ExpectedMultiplayer(entries)
        /\ Len(singleplayer_games) <=
              Len(SelectSeq(FlatItems(entries, Len(entries)), CompleteSingleplayer))

(***************************************************************************)
(* C5: a payload item with type tag 1 or 2 and all required fields yields  *)
(* exactly one single-player record and raises no error, for tag 2 as for  *)
(* tag 1: process_data never raises at such an item.                       *)
(***************************************************************************)
C5_SingleplayerItemRaisesNoError ==
    (pd_status = "raised" /\ pd_error.at = "item") =>
        ~CompleteSingleplayer(Structured(payload[j]))

(***************************************************************************)
(* C6: a payload item with a type tag other than 1, 2, 6 and 7 adds no     *)
(* record to either list and raises no error, and the loops go on with the *)
(* next item or entry.                                                     *)
(***************************************************************************)
C6_UnknownTagIsIgnored ==
    [][/\ (pc = "item" /\ UnknownTag(Structured(payload[j]))) =>
            /\ multiplayer_games' = multiplayer_games
            /\ singleplayer_games' = singleplayer_games
            /\ pd_status' = "running"
            /\ IF j < Len(payload) THEN pc' = "item" /\ j' = j + 1 /\ i' = i
               ELSE pc' = "entry" /\ i' = i + 1
       /\ (pc = "entry" /\ i <= Len(entries) /\ SingleObjectPayload(entries[i])
              /\ UnknownTag(Structured(entries[i]).d.payload)) =>
            /\ multiplayer_games' = multiplayer_games
            /\ singleplayer_games' = singleplayer_games
            /\ pd_status' = "running"
            /\ pc' = "entry" /\ i' = i + 1]_vars

\* process_data has returned a record of an item that follows an item with
\* an unknown tag in the same payload list
C6_Witness ==
    /\ pd_status = "returned"
    /\ \E n \in 1..Len(entries) :
          /\ Len(ItemsOfEntry(entries[n])) = 2
          /\ UnknownTag(ItemsOfEntry(entries[n])[1])
          /\ CompleteMultiplayer(ItemsOfEntry(entries[n])[2])
          /\ \E x \in 1..Len(classified) : classified[x] = <<n, 1>>
          /\ \E x \in 1..Len(classified) : classified[x] = <<n, 2>>
    /\ multiplayer_games # <<>>

(***************************************************************************)
(* C7: when a multiplayer payload item of the batch lacks gameId or        *)
(* another required field, process_data raises a validation error and      *)
(* returns no records, and run_extraction persists nothing of the batch.   *)
(***************************************************************************)
C7_MissingFieldAbortsBatch ==
    (\E x \in 1..Len(FlatItems(entries, Len(entries))) :
        IncompleteMultiplayer(FlatItems(entries, Len(entries))[x])) =>
        /\ pd_status # "returned"
        /\ pc # "insert"
        /\ RunOver =>
              /\ pd_status = "raised"
              /\ pd_error.type = "GameDataValidationError"
              /\ processed_data = None
              /\ Last(results) = FALSE
              /\ multiplayer_games_tbl = <<>>

(***************************************************************************)
(* C8: a structured entry without the top-level type field makes           *)
(* process_data raise a validation error for the whole batch, before any   *)
(* payload item of that entry is classified.                               *)
(***************************************************************************)
C8_MissingTypeRaisesBeforeClassification ==
    \A n \in 1..Len(entries) :
        StructuredWithoutType(entries[n]) =>
            /\ i <= n
            /\ \A x \in 1..Len(classified) : classified[x][1] # n
            /\ pd_status # "returned"
            /\ pc # "insert"
            /\ RunOver =>
                  /\ pd_status = "raised"
                  /\ pd_error.type = "GameDataValidationError"
                  /\ Last(results) = FALSE

\* process_data has raised at an entry without type that carries a payload
\* item, after an item of an earlier entry was classified
C8_Witness ==
    /\ RunOver
    /\ pd_status = "raised"
    /\ pd_error.at = "entry"
    /\ i > 1
    /\ StructuredWithoutType(entries[i])
    /\ ItemsOfEntry(entries[i]) # <<>>
    /\ classified # <<>>

(***************************************************************************)
(* C9: an entry whose payload is a single object is treated as an entry    *)
(* whose payload is the one-element list of that object: the outer loop    *)
(* hands the object to the inner loop.                                     *)
(***************************************************************************)
C9_SingleObjectIsOneElementList ==
    [][(pc = "entry" /\ i <= Len(entries) /\ SingleObjectPayload(entries[i])) =>
            /\ pc' = "item"
            /\ payload' = <<Structured(Structured(entries[i]).d.payload)>>
            /\ j' = 1]_vars

(***************************************************************************)
(* C10: ingesting the same feed snapshot a second time leaves the table    *)
(* multiplayer_games with the rows it had after the first ingestion.       *)
(***************************************************************************)
C10_IngestionIsIdempotent ==
    Len(tbl_runs) = 2 => tbl_runs[2] = tbl_runs[1]

\* two ingestions have committed a table in which a row of the snapshot
\* replaced another row of the snapshot and a row was there before
C10_Witness ==
    /\ Len(tbl_runs) = 2
    /\ results = <<TRUE, TRUE>>
    /\ Len(tbl_runs[2]) >= 2
    /\ Len(processed_data.multiplayer_games) > Len(tbl_runs[2])
    /\ \E x \in 1..Len(tbl_runs[2]) : tbl_runs[2][x].player_id # PlayerId

(***************************************************************************)
(* Storage Gateway: table multiplayer_games.                               *)
(***************************************************************************)
\* the rows of a table that carry the game id g
RowsOf(tbl, g) == SelectSeq(tbl, LAMBDA r : r.game_id = g)

\* the game ids of a table
GameIds(tbl) == {tbl[x].game_id : x \in 1..Len(tbl)}

OneRowPerGameId(tbl) == \A g \in GameIds(tbl) : Len(RowsOf(tbl, g)) = 1

\* the row the running insert_games call is about to write
CurrentRow == GameRow(player_id, processed_data.multiplayer_games[k])

\* the running insert_games call writes a row that the table accepts
WritesRow ==
    /\ pc = "insert"
    /\ k <= Len(processed_data.multiplayer_games)
    /\ k' = k + 1
    /\ ~ViolatesNotNull(CurrentRow)

(***************************************************************************)
(* C11: after any sequence of insert_games calls, committed or under way,  *)
(* the table multiplayer_games holds at most one row per game id; a write  *)
(* of a record whose game id the table already holds, whatever the         *)
(* player_id of the stored row, leaves exactly one row for that game id,   *)
(* and its fields are those of this later write.                           *)
(***************************************************************************)
C11_OneRowPerGameId ==
    /\ [](OneRowPerGameId(multiplayer_games_tbl) /\ OneRowPerGameId(conn))
    /\ [][WritesRow => RowsOf(conn', CurrentRow.game_id) = <<CurrentRow>>]_vars

\* a second call, for another player, has replaced the row of game g1
C11_Witness ==
    /\ pc = "idle"
    /\ Len(calls) = 2
    /\ \E x \in 1..Len(before.multiplayer_games) :
          /\ before.multiplayer_games[x].game_id = "g1"
          /\ before.multiplayer_games[x].player_id = "p1"
    /\ RowsOf(multiplayer_games_tbl, "g1") = <<GameRow("p2", Game("g1", "t2", "TeamDuels"))>>
    /\ Len(multiplayer_games_tbl) > 1

(***************************************************************************)
(* Storage Gateway: the batch policy of the writing methods.               *)
(***************************************************************************)
\* a DatabaseManager method is running
Running == pc \in {"insert", "team_duel_game", "team_duel_round", "enriched_round",
                   "enrich_round"}

\* the row the running method is about to write is one the table rejects
RowFails ==
    \/ /\ pc = "insert"
       /\ k <= Len(processed_data.multiplayer_games)
       /\ ViolatesNotNull(CurrentRow)
    \/ /\ pc = "team_duel_game"
       /\ ViolatesNotNullGame(TeamDuelGameRow(duel_data))
    \/ /\ pc = "team_duel_round"
       /\ round_idx <= Len(rounds)
       /\ ViolatesNotNullRound(RoundRow(duel_data.game_id, rounds[round_idx]))
    \/ /\ pc = "enriched_round"
       /\ round_idx <= Len(rounds)
       /\ ViolatesNotNullRound(RoundRow(duel_data.game_id, rounds[round_idx]))
    \/ /\ pc = "enrich_round"
       /\ round_idx <= Len(rounds)
       /\ ViolatesNotNullRound(rounds[round_idx])

\* the step skips the row: the method goes on with the rows it has written
\* so far, which its commit then makes durable
SkipsRow ==
    /\ Running'
    /\ conn' = conn
    /\ tx' = tx
    /\ calls' = calls

(***************************************************************************)
(* C12: in insert_games, insert_team_duel_game,                            *)
(* insert_enriched_team_duel_game and enrich_team_duel_rounds, when the    *)
(* write of one row of the batch fails, the row is skipped: the call goes  *)
(* on with the rows it has written and commits them.                       *)
(***************************************************************************)
C12_FailingRowIsSkipped == [][RowFails => SkipsRow]_vars

(***************************************************************************)
(* C13: while a Storage Gateway call is running, none of its rows is       *)
(* committed yet: the committed tables are those the call found, until     *)
(* the single commit at its end (insert_enriched_team_duel_game, with the  *)
(* base game, the raw rounds and the enriched rounds, included).           *)
(***************************************************************************)
C13_SingleCommitAtEnd == Running => Committed = before

(***************************************************************************)
(* Location Enricher and the enrichment pass.                              *)
(***************************************************************************)
\* the enriched rows of a table that belong to a round
EnrichedOf(tbl, round) ==
    SelectSeq(tbl, LAMBDA r : r.game_id = round.game_id
                              /\ r.round_number = round.round_number)

\* the guess is the empty string, a string that is no position, or absent
Unresolvable(guess) ==
    \/ isinstance(guess, "None")
    \/ guess = EmptyStr
    \/ Len(guess.parts) # 2
    \/ \E x \in 1..Len(guess.parts) : guess.parts[x] \notin FloatTexts

\* the four region fields of a row for one of its coordinates
Regions(row, coordinate) ==
    CASE coordinate = "player1_guess" ->
           <<row.player1_guess_country, row.player1_guess_region,
             row.player1_guess_state, row.player1_guess_city>>
      [] coordinate = "player2_guess" ->
           <<row.player2_guess_country, row.player2_guess_region,
             row.player2_guess_state, row.player2_guess_city>>
      [] coordinate = "correct_location" ->
           <<row.correct_location_country, row.correct_location_region,
             row.correct_location_state, row.correct_location_city>>

\* the four region fields the provider resolves a position to
Resolved(lat_lng) ==
    <<AddressGet(AddressAt(lat_lng), "country"), AddressGet(AddressAt(lat_lng), "region"),
      AddressGet(AddressAt(lat_lng), "state"), AddressGet(AddressAt(lat_lng), "city")>>

\* the pass takes a round whose second guess cannot be resolved, and the
\* provider resolves the first guess and the correct location
TakesRoundWithoutSecondGuess ==
    /\ pc = "enrich_round"
    /\ round_idx <= Len(rounds)
    /\ Unresolvable(rounds[round_idx].player2_guess)
    /\ Len(geocoded') = Len(geocoded) + 1
    /\ Last(geocoded')[1] = "location"
    /\ Last(geocoded')[3] = "location"

(***************************************************************************)
(* C14: for a raw round whose player2_guess is empty or malformed while    *)
(* player1_guess and correct_location are resolved, the pass writes an     *)
(* enriched row whose player2 region fields are null and whose player1     *)
(* and correct-location region fields are the resolved values, and it     *)
(* goes on with the next round.                                            *)
(***************************************************************************)
C14_UnresolvableSecondGuess ==
    [][TakesRoundWithoutSecondGuess =>
         /\ pc' = "enrich_round"
         /\ round_idx' = round_idx + 1
         /\ LET written == EnrichedOf(tx'.team_duel_rounds_enriched, rounds[round_idx]) IN
            /\ Len(written) = 1
            /\ Regions(written[1], "player2_guess") = <<Null, Null, Null, Null>>
            /\ Regions(written[1], "player1_guess") =
                  Resolved(rounds[round_idx].player1_guess)
            /\ Regions(written[1], "correct_location") =
                  Resolved(rounds[round_idx].correct_location)]_vars

\* a pass over two rounds, the first with a malformed second guess, has
\* enriched both
C14_Witness ==
    /\ pc = "idle"
    /\ calls = <<[op |-> "enrich_team_duel_rounds", result |-> "True"]>>
    /\ Len(team_duel_rounds_tbl) = 2
    /\ team_duel_rounds_tbl[1].player2_guess = CoordStr(<<"abc">>)
    /\ geocoded[1] = <<"location", "None", "location">>
    /\ Len(team_duel_rounds_enriched_tbl) = 2
    /\ team_duel_rounds_enriched_tbl[1].player2_guess_country = Null
    /\ team_duel_rounds_enriched_tbl[1].player1_guess_country = "France"
    /\ team_duel_rounds_enriched_tbl[1].correct_location_country = "United States"

\* the three coordinate fields of a round, in the order of the lookups
Coordinates(round) == <<round.player1_guess, round.player2_guess, round.correct_location>>

(***************************************************************************)
(* C15: a failure of a geocoding call, of whatever kind, makes             *)
(* get_location_data return None for that coordinate; it never leaves      *)
(* get_location_data, so no enrichment pass ends by an exception.          *)
(***************************************************************************)
C15_GeocodingFailureDegradesToNull ==
    /\ \A x \in 1..Len(geocoded) : \A c \in 1..3 :
          get_location_data(Coordinates(rounds[x])[c], geocoded[x][c]).ok
    /\ \A x \in 1..Len(calls) : calls[x].result # "raised"

\* the fields of a raw round that the enriched row copies
CopiedFields ==
    {"player1_guess", "player2_guess", "correct_location", "country_code",
     "opponent_score", "team_score", "heading", "pitch", "zoom"}

\* the enriched table holds exactly one row for every round of the raw
\* table, and that row carries the raw row's value in every field of fields
EnrichedCoversRaw(fields) ==
    \A x \in 1..Len(team_duel_rounds_tbl) :
       LET raw == team_duel_rounds_tbl[x]
           enriched == EnrichedOf(team_duel_rounds_enriched_tbl, raw)
       IN  /\ Len(enriched) = 1
           /\ \A f \in fields : f \in DOMAIN enriched[1] /\ enriched[1][f] = raw[f]

\* a pass has returned True
SomePassSucceeded == \E x \in 1..Len(calls) : calls[x].result = "True"

(***************************************************************************)
(* C16: once an enrich_team_duel_rounds pass has succeeded, and after      *)
(* every later pass, the enriched table holds exactly one row for every    *)
(* (game_id, round_number) of the raw rounds table, and its guesses,       *)
(* correct location, country code, scores, heading, pitch and zoom are     *)
(* those of the raw row.                                                   *)
(***************************************************************************)
C16_OneEnrichedRowPerRawRound == SomePassSucceeded => EnrichedCoversRaw(CopiedFields)

\* two passes have succeeded on two rounds, and the row of another game is
\* still there
C16_Witness ==
    /\ pc = "idle"
    /\ Len(calls) = 2
    /\ calls[1].result = "True"
    /\ calls[2].result = "True"
    /\ Len(team_duel_rounds_tbl) = 2
    /\ Len(before.team_duel_rounds_enriched) = 3
    /\ Len(team_duel_rounds_enriched_tbl) = 3
    /\ team_duel_rounds_enriched_tbl[1].game_id = "d0"

(***************************************************************************)
(* C17: an enriched round is a superset of its raw round: after a          *)
(* successful pass every field of the raw row, best_opponent_guess         *)
(* included, is in the enriched row with the same value.                   *)
(***************************************************************************)
C17_EnrichedIsSupersetOfRaw ==
    SomePassSucceeded => EnrichedCoversRaw(CopiedFields \cup {"best_opponent_guess"})

(***************************************************************************)
(* The ingestion run: what it stores and how it ends.                      *)
(***************************************************************************)
\* the keys of the rows of a table
KeysOf(tbl) == {tbl[x].game_id : x \in 1..Len(tbl)}

\* the keys under which the store holds a game, whatever the table
StoredKeys ==
    KeysOf(multiplayer_games_tbl) \cup KeysOf(team_duel_games_tbl)
      \cup KeysOf(team_duel_rounds_tbl) \cup KeysOf(team_duel_rounds_enriched_tbl)

(***************************************************************************)
(* C18: after a run_extraction that returned True, every single-player     *)
(* record process_data produced is stored, keyed by its game_token.        *)
(***************************************************************************)
C18_SinglePlayerRecordsAreStored ==
    (RunOver /\ Last(results) = TRUE) =>
        \A x \in 1..Len(processed_data.singleplayer_games) :
           processed_data.singleplayer_games[x].game_token \in StoredKeys

\* the values run_extraction can return to main
ReturnValues == {TRUE, FALSE}

(***************************************************************************)
(* C19: when process_data raises a validation error or the fetch of the    *)
(* feed fails, run_extraction ends by an exception that reaches main; it   *)
(* does not return a value to main.                                        *)
(***************************************************************************)
C19_ErrorsPropagateToMain ==
    (RunOver /\ (FetchFailed \/ pd_status = "raised")) => Last(results) \notin ReturnValues

(***************************************************************************)
(* C20: when the read of get_game_ids fails, the failure reaches the       *)
(* caller as an error that ends the pipeline: extract_duel_games does not  *)
(* go on with an empty list of games, and main does not end normally.      *)
(***************************************************************************)
C20_ReadFailurePropagates ==
    store_read = "sqlite3.Error" =>
        /\ pc # "extract"
        /\ main_outcome = "raised"

(***************************************************************************)
(* extract_duel_games and process_team_duel_game.                          *)
(***************************************************************************)
\* the loop of extract_duel_games is at a stored game
AtGame == pc = "extract" /\ meta_idx <= Len(game_meta_data)

\* the loop goes on with the next game of the list
GoesOnWithNextGame ==
    /\ pc' = "extract"
    /\ meta_idx' = meta_idx + 1
    /\ main_outcome' = main_outcome

\* the game the loop is at is not summarized
NotSummarized == printed' = printed /\ duel_bodies' = duel_bodies

(***************************************************************************)
(* C21: extract_duel_games summarizes only the games whose mode is         *)
(* TeamDuels: at a Duels game it summarizes and logs nothing, at a game of *)
(* any other mode it logs the mode as an error and summarizes nothing, and *)
(* in both cases the loop goes on with the next game of the list.          *)
(***************************************************************************)
C21_OnlyTeamDuelsAreSummarized ==
    [][AtGame =>
         LET game_mode == game_meta_data[meta_idx].game_mode IN
         /\ game_mode = "Duels" =>
               NotSummarized /\ logged' = logged /\ GoesOnWithNextGame
         /\ game_mode \notin {"Duels", "TeamDuels"} =>
               NotSummarized /\ logged' = Append(logged, game_mode) /\ GoesOnWithNextGame
         /\ ~NotSummarized => game_mode = "TeamDuels"]_vars

\* a game of another mode was logged and skipped, and the TeamDuels game
\* after it was summarized
C21_Witness ==
    /\ Len(game_meta_data) = 2
    /\ game_meta_data[1].game_mode = "BattleRoyaleDistance"
    /\ game_meta_data[2].game_mode = "TeamDuels"
    /\ logged = <<"BattleRoyaleDistance">>
    /\ fetched = <<"g1", "g2">>
    /\ Len(printed) = 1
    /\ printed[1] # None
    /\ printed[1].game_id = "g2"
    /\ main_outcome = "exit"

\* process_team_duel_game has returned a summary
Summarized == printed # <<>> /\ printed[1] # None

\* the team of the body that the tracked player is in
TrackedTeam(body) ==
    LET teams == body.d.teams IN
    teams[CHOOSE x \in 1..Len(teams) :
            /\ \E y \in 1..Len(teams[x].players) : teams[x].players[y].playerId = PlayerId
            /\ \A z \in 1..(x - 1) :
                  \A y \in 1..Len(teams[z].players) : teams[z].players[y].playerId # PlayerId]

\* the guesses for a round of the members of the tracked team other than
\* the tracked player, in team member order
TeammateGuesses(body, round_num) ==
    SelectSeq(GuessesOf(TrackedTeam(body).players, Len(TrackedTeam(body).players), round_num),
              LAMBDA g : g.playerId # PlayerId)

\* the "lat, lng" text of a guess
TextOf(guess) == CoordStr(<<guess.lat, guess.lng>>)

(***************************************************************************)
(* C22 as stated: in every round summary player2_guess is the first guess  *)
(* for that round among the tracked team's members other than the tracked  *)
(* player, in team member order; a later teammate's guess does not replace *)
(* it.                                                                     *)
(***************************************************************************)
C22_FirstTeammateGuess ==
    Summarized =>
        \A x \in 1..Len(printed[1].rounds) :
           LET guesses == TeammateGuesses(duel_bodies[1], printed[1].rounds[x].round_number.n)
           IN  printed[1].rounds[x].player2_guess =
                 IF guesses = <<>> THEN None ELSE TextOf(guesses[1].guess)

(***************************************************************************)
(* C22, amended: in every round summary player2_guess is the last guess    *)
(* for that round among the tracked team's members other than the tracked  *)
(* player, in team member order: a later teammate's guess replaces an      *)
(* earlier one.  It is None when no such member guessed in that round.     *)
(***************************************************************************)
C22_LastTeammateGuess ==
    Summarized =>
        \A x \in 1..Len(printed[1].rounds) :
           LET guesses == TeammateGuesses(duel_bodies[1], printed[1].rounds[x].round_number.n)
           IN  printed[1].rounds[x].player2_guess =
                 IF guesses = <<>> THEN None ELSE TextOf(guesses[Len(guesses)].guess)

\* a team of three was summarized: the second member's guess came first,
\* the third member's guess is the one in the summary
C22_Witness ==
    /\ Summarized
    /\ Len(printed[1].rounds) >= 1
    /\ TeamPlayerIds(TrackedTeam(duel_bodies[1])) = <<"p1", "p2", "p7">>
    /\ Len(TeammateGuesses(duel_bodies[1], 1)) = 2
    /\ TeammateGuesses(duel_bodies[1], 1)[1].guess = Guess(1, "48.8", "2.3")
    /\ printed[1].rounds[1].player2_guess = CoordStr(<<"2.3", "48.8">>)

(***************************************************************************)
(* C23: main runs the ingestion: a run of main that ends normally has      *)
(* called GameFileExtractor.run_extraction, and within run_extraction the  *)
(* insert into the store begins only after process_data has returned.      *)
(***************************************************************************)
C23_MainRunsIngestion ==
    /\ main_outcome = "exit" => results # <<>>
    /\ pc = "insert" => pd_status = "returned"

(***************************************************************************)
(* C24: every request of a retrieval after the first carries as            *)
(* paginationToken the token of the response before it, whatever token     *)
(* kept the loop running, the empty string included.                       *)
(***************************************************************************)
C24_TokenIsEchoed ==
    \A n \in 2..Len(requests) :
       /\ "paginationToken" \in DOMAIN requests[n]
       /\ requests[n].paginationToken = DataGetToken(feed[n - 1].data)

\* no game of the list before the x-th is a TeamDuels game
NoTeamDuelsBefore(x) == \A y \in 1..(x - 1) : game_meta_data[y].game_mode # "TeamDuels"

C26_Player1IsTrackedPlayer ==
    Summarized =>
        /\ printed[1].player1 = PlayerId
        /\ printed[1].player2 # PlayerId
        /\ \E y \in 1..Len(TrackedTeam(duel_bodies[1]).players) :
              TrackedTeam(duel_bodies[1]).players[y].playerId = printed[1].player2

\* the last call of enrich_team_duel_rounds has failed: it returned False
\* or ended by an exception
PassFailed ==
    /\ pc = "idle"
    /\ calls # <<>>
    /\ Last(calls).op = "enrich_team_duel_rounds"
    /\ Last(calls).result \in {"False", "raised"}

(***************************************************************************)
(* C27: when enrich_team_duel_rounds fails partway through a pass, by      *)
(* returning False or by raising, the enriched table is exactly as it was  *)
(* before the call: no row upserted earlier in the pass is committed.      *)
(***************************************************************************)
C27_FailedPassLeavesTableUnchanged ==
    PassFailed => team_duel_rounds_enriched_tbl = before.team_duel_rounds_enriched

\* a pass over two rounds has upserted the first and ended by an exception
\* in the second
C27_Witness ==
    /\ PassFailed
    /\ Last(calls).result = "raised"
    /\ Len(rounds) = 2
    /\ Len(geocoded) = 2
    /\ geocoded[1] = <<"location", "location", "location">>
    /\ team_duel_rounds_enriched_tbl = <<>>

====
